---- MODULE Spec2Model ----
(***************************************************************************)
(* A model of the relish binary serialization library: the byte reader,    *)
(* the tagged varint length codec, the typed codec (Relish trait impls),   *)
(* the struct field cursor (StructParser), the code the derive macro       *)
(* generates for structs and enums, and the schema-less decoder of         *)
(* relish_ascii.                                                           *)
(*                                                                         *)
(* Bytes are the integers 0..255 and a buffer is a sequence of bytes.      *)
(* A result is a record                                                    *)
(*     [tag, val, rest, err]                                               *)
(* tag = "Ok"      the call returned Ok(val); rest = what the reader it    *)
(*                 was given still holds afterwards                        *)
(* tag = "Err"     the call returned Err(ParseError(err))                  *)
(* tag = "Panic"   the call panicked (index out of bounds, division by     *)
(*                 zero, unwrap of None)                                   *)
(* tag = "Diverge" the call never returns (a loop that makes no progress)  *)
(* An error is [kind, a, b]: the ParseErrorKind and its (up to two)        *)
(* payload numbers.                                                        *)
(***************************************************************************)
EXTENDS Integers, Sequences, FiniteSets, TLC

VARIABLES
    mode,      \* which family of inputs this behaviour explores
    phase,     \* position of the driver: "init", then one name per call made
    schema,    \* the Rust type T the typed codec is instantiated at
    value,     \* the value handed to to_vec / write_value
    wire,      \* the bytes handed to parse / from_bytes
    typed,     \* result of the typed decoder parse::<T>(wire)
    dyn,       \* result of the schema-less decoder from_bytes(wire)
    aux        \* per-family extra inputs and outputs (a record)

vars == <<mode, phase, schema, value, wire, typed, dyn, aux>>

----------------------------------------------------------------------------
(* Results and errors                                                      *)

NoErr == [kind |-> "None", a |-> 0, b |-> 0]

NoResult == [tag |-> "None", val |-> <<>>, rest |-> <<>>, err |-> NoErr]

Ok(v, rest) == [tag |-> "Ok", val |-> v, rest |-> rest, err |-> NoErr]

Err(kind, a, b) ==
    [tag |-> "Err", val |-> <<>>, rest |-> <<>>,
     err |-> [kind |-> kind, a |-> a, b |-> b]]

Panic(why) ==
    [tag |-> "Panic", val |-> <<>>, rest |-> <<>>,
     err |-> [kind |-> why, a |-> 0, b |-> 0]]

Diverge ==
    [tag |-> "Diverge", val |-> <<>>, rest |-> <<>>,
     err |-> [kind |-> "NoProgress", a |-> 0, b |-> 0]]

IsOk(r) == r.tag = "Ok"

IsErr(r, kind) == r.tag = "Err" /\ r.err.kind = kind

IsErrWith(r, kind, a, b) == r.tag = "Err" /\ r.err = [kind |-> kind, a |-> a, b |-> b]

----------------------------------------------------------------------------
(* Sequence helpers                                                        *)

Drop(s, n) == SubSeq(s, n + 1, Len(s))

Take(s, n) == SubSeq(s, 1, n)

RECURSIVE Concat(_)
Concat(ss) == IF ss = <<>> THEN <<>> ELSE Head(ss) \o Concat(Tail(ss))

RECURSIVE SumSeq(_)
SumSeq(s) == IF s = <<>> THEN 0 ELSE Head(s) + SumSeq(Tail(s))

Range(s) == {s[i] : i \in 1..Len(s)}

\* All sequences over S of length at most n.
SeqUpTo(S, n) == UNION {[1..k -> S] : k \in 0..n}

----------------------------------------------------------------------------
(* buf.rs: BytesRef                                                        *)

\* A read that hands out what is left when asked for more.
Read_clamped(data, amt) ==
    IF amt > Len(data)
    THEN Ok(data, <<>>)
    ELSE Ok(Take(data, amt), Drop(data, amt))

\* BytesRef::read(amt): val is the sub-reader over the next amt bytes, rest
\* is what self holds afterwards.
Read(data, amt) ==
    IF amt > Len(data)
    THEN Err("InsufficientData", amt, Len(data))
    ELSE Ok(Take(data, amt), Drop(data, amt))

\* The ? operator: a call that did not return Ok ends the calling function
\* with that outcome; otherwise the function goes on with the Ok value.
Try(r, then(_)) == IF IsOk(r) THEN then(r) ELSE r

\* parse.rs read_byte: data.read(1)? then bytes[0].
read_byte(data) == Try(Read(data, 1), LAMBDA bytes : Ok(bytes.val[1], bytes.rest))

----------------------------------------------------------------------------
(* types.rs / parse.rs: the tagged varint length codec                     *)
(*                                                                         *)
(* TLC's integers are 32-bit signed, so the u32 value                      *)
(* (length << 1) | 1 is never formed: its four little-endian bytes are     *)
(* computed one by one, and full_value >> 1 is summed from the bytes.      *)

MaxVarintLength == 2147483647

\* A writer that still takes the one-byte form at length 128.
write_tagged_varint_length_short_at_128(length) ==
    IF length <= 128
    THEN Ok(<<(length * 2) % 256>>, <<>>)
    ELSE Ok(<< (length % 128) * 2 + 1,
               (length \div 128) % 256,
               (length \div 32768) % 256,
               (length \div 8388608) % 256 >>, <<>>)

\* write_tagged_varint_length: val is the bytes appended to the buffer.
write_tagged_varint_length(length) ==
    IF length > MaxVarintLength
    THEN Err("ContentTooLarge", length, 0)
    ELSE IF length < 128
         THEN Ok(<<(length * 2) % 256>>, <<>>)
         ELSE Ok(<< (length % 128) * 2 + 1,
                    (length \div 128) % 256,
                    (length \div 32768) % 256,
                    (length \div 8388608) % 256 >>, <<>>)

\* A usize length above what a TLC integer holds is [hi, lo], the length
\* hi * 2^31 + lo with lo < 2^31: it is above (1 << 31) - 1 iff hi > 0.
\* A writer that casts the length to u32 without the range check.
write_tagged_varint_length_unchecked(length) ==
    write_tagged_varint_length(length.lo)

\* write_tagged_varint_length on a usize length [hi, lo]: the error carries
\* the length as a = lo, b = hi.
write_tagged_varint_length_usize(length) ==
    IF length.hi > 0
    THEN Err("ContentTooLarge", length.lo, length.hi)
    ELSE write_tagged_varint_length(length.lo)

\* A size computation that forgets the four-byte form.
tagged_varint_length_size_always_short(length) == 1

tagged_varint_length_size(length) == IF length < 128 THEN 1 ELSE 4

\* The four little-endian bytes of ((length as u32) << 1) | 1, at any length.
long_form(length) ==
    << (length % 128) * 2 + 1,
       (length \div 128) % 256,
       (length \div 32768) % 256,
       (length \div 8388608) % 256 >>

\* A reader that refuses a four-byte form whose length fits one byte.
read_tagged_varint_length_minimal(data) ==
    Try(read_byte(data), LAMBDA first_byte :
        IF first_byte.val % 2 = 0
        THEN Ok(first_byte.val \div 2, first_byte.rest)
        ELSE Try(Read(first_byte.rest, 3), LAMBDA bytes :
                 IF bytes.val = <<0, 0, 0>> THEN Err("NonMinimalLength", 0, 0)
                 ELSE Ok((first_byte.val \div 2) + 128 * bytes.val[1]
                           + 32768 * bytes.val[2] + 8388608 * bytes.val[3],
                         bytes.rest)))

read_tagged_varint_length(data) ==
    Try(read_byte(data), LAMBDA first_byte :
        IF first_byte.val % 2 = 0
        THEN Ok(first_byte.val \div 2, first_byte.rest)
        ELSE Try(Read(first_byte.rest, 3), LAMBDA bytes :
                 Ok((first_byte.val \div 2) + 128 * bytes.val[1]
                      + 32768 * bytes.val[2] + 8388608 * bytes.val[3],
                    bytes.rest)))

----------------------------------------------------------------------------
(* types.rs: TypeId                                                        *)

TNull == 0
TBool == 1
TU8 == 2
TU16 == 3
TU32 == 4
TU64 == 5
TU128 == 6
TI8 == 7
TI16 == 8
TI32 == 9
TI64 == 10
TI128 == 11
TF32 == 12
TF64 == 13
TString == 14
TArray == 15
TMap == 16
TStruct == 17
TEnum == 18
TTimestamp == 19

\* Option<TypeId>: None is NoTypeId.
NoTypeId == -1

\* A table that also takes 0x14 for a type id.
from_byte_accepting_0x14(byte) ==
    IF byte >= 128 THEN NoTypeId
    ELSE IF byte \in TNull..TTimestamp THEN byte
    ELSE IF byte = 20 THEN TTimestamp ELSE NoTypeId

\* TypeId::from_byte
from_byte(byte) ==
    IF byte >= 128 THEN NoTypeId
    ELSE IF byte \in TNull..TTimestamp THEN byte ELSE NoTypeId

\* TypeLength: Fixed(size) is the size, Varsize is -1.
Varsize == -1

\* TypeId::length
length(type_id) ==
    CASE type_id = TNull -> 0
      [] type_id \in {TBool, TU8, TI8} -> 1
      [] type_id \in {TU16, TI16} -> 2
      [] type_id \in {TU32, TI32, TF32} -> 4
      [] type_id \in {TU64, TI64, TF64, TTimestamp} -> 8
      [] type_id \in {TU128, TI128} -> 16
      [] type_id \in {TString, TArray, TMap, TStruct, TEnum} -> Varsize

\* A carving that hands out what is left of data when the value's size or
\* length asks for more.
read_value_for_typeid_lenient(data, type_id) ==
    IF length(type_id) # Varsize
    THEN Read_clamped(data, length(type_id))
    ELSE Try(read_tagged_varint_length(data), LAMBDA l : Read_clamped(l.rest, l.val))

\* parse.rs read_value_for_typeid: val is the carved value slice.
read_value_for_typeid(data, type_id) ==
    IF length(type_id) # Varsize
    THEN Read(data, length(type_id))
    ELSE Try(read_tagged_varint_length(data), LAMBDA l : Read(l.rest, l.val))

----------------------------------------------------------------------------
(* Type descriptors: the Rust type T a generic function is instantiated at *)
(*   k    the wire type (T::TYPE)                                          *)
(*   sub  element type (Array), key and value type (Map), field types     *)
(*        (Struct), variant payload types (Enum)                           *)
(*   ids  the field ids / variant ids, in the order the derive macro       *)
(*        leaves them (sorted by id)                                       *)
(*   opt  per struct field: declared Option<T>                             *)

Prim(k) == [k |-> k, sub |-> <<>>, ids |-> <<>>, opt |-> <<>>]

VecOf(e) == [k |-> TArray, sub |-> <<e>>, ids |-> <<>>, opt |-> <<>>]

MapOf(kt, vt) == [k |-> TMap, sub |-> <<kt, vt>>, ids |-> <<>>, opt |-> <<>>]

StructOf(ids, tys, opt) == [k |-> TStruct, sub |-> tys, ids |-> ids, opt |-> opt]

EnumOf(ids, tys) == [k |-> TEnum, sub |-> tys, ids |-> ids, opt |-> <<>>]

\* A read of the type byte that does not compare it with T::TYPE.
read_for_type_unchecked(T, data) ==
    Try(read_byte(data), LAMBDA b :
        IF from_byte(b.val) = NoTypeId THEN Err("InvalidTypeId", b.val, 0)
        ELSE Ok(from_byte(b.val), b.rest))

\* TypeId::read_for_type::<T>
read_for_type(T, data) ==
    Try(read_byte(data), LAMBDA b :
        IF from_byte(b.val) = NoTypeId THEN Err("InvalidTypeId", b.val, 0)
        ELSE IF from_byte(b.val) # T.k THEN Err("TypeMismatch", T.k, b.val)
        ELSE Ok(from_byte(b.val), b.rest))

----------------------------------------------------------------------------
(* Machine integers.  A value of an n-byte integer type is the sequence of *)
(* its base-65536 digits, least significant first (one digit below 256 for *)
(* a one-byte type); the top digit of a signed type carries the sign.      *)

SignedTypes == {TI8, TI16, TI32, TI64, TI128}

IntegerTypes == {TU8, TU16, TU32, TU64, TU128, TI8, TI16, TI32, TI64, TI128, TF32, TF64}

\* <$ty>::from_le_bytes
from_le_bytes(type_id, bytes) ==
    LET n == Len(bytes)
        nd == (n + 1) \div 2
        top == IF n = 1 THEN 256 ELSE 65536
        digit(i) == bytes[2 * i - 1] + (IF 2 * i <= n THEN 256 * bytes[2 * i] ELSE 0)
    IN  [i \in 1..nd |->
            IF i = nd /\ type_id \in SignedTypes /\ bytes[n] >= 128
            THEN digit(i) - top ELSE digit(i)]

\* The bytes of an integer, most significant first.
to_be_bytes(type_id, v) ==
    LET n == length(type_id)
        top == IF n = 1 THEN 256 ELSE 65536
        digit(i) == IF v[i] < 0 THEN v[i] + top ELSE v[i]
    IN  [j \in 1..n |->
            IF (n + 1 - j) % 2 = 1 THEN digit((n + 2 - j) \div 2) % 256
            ELSE digit((n + 1 - j) \div 2) \div 256]

\* <$ty>::to_le_bytes
to_le_bytes(type_id, v) ==
    LET n == length(type_id)
        top == IF n = 1 THEN 256 ELSE 65536
        digit(i) == IF v[i] < 0 THEN v[i] + top ELSE v[i]
    IN  [j \in 1..n |->
            IF j % 2 = 1 THEN digit((j + 1) \div 2) % 256
            ELSE digit(j \div 2) \div 256]

----------------------------------------------------------------------------
(* String::from_utf8: the well-formed byte sequences of UTF-8, stated per  *)
(* position: every byte is ASCII, or a lead byte followed by the           *)
(* continuation bytes its range requires, or a continuation byte that a    *)
(* lead byte at most three places before it accounts for.                  *)

IsCont(b) == b \in 128..191

\* Number of bytes of the sequence a lead byte starts (0: not a lead byte).
Utf8Width(b) ==
    IF b \in 194..223 THEN 2
    ELSE IF b \in 224..239 THEN 3
    ELSE IF b \in 240..244 THEN 4 ELSE 0

\* The values the byte after lead byte b may take.
Utf8Second(b) ==
    IF b = 224 THEN 160..191
    ELSE IF b = 237 THEN 128..159
    ELSE IF b = 240 THEN 144..191
    ELSE IF b = 244 THEN 128..143 ELSE 128..191

IsUtf8(s) ==
    \A i \in 1..Len(s) :
        \/ s[i] < 128
        \/ /\ Utf8Width(s[i]) > 0
           /\ i + Utf8Width(s[i]) - 1 <= Len(s)
           /\ s[i + 1] \in Utf8Second(s[i])
           /\ \A m \in 2..(Utf8Width(s[i]) - 1) : IsCont(s[i + m])
        \/ /\ IsCont(s[i])
           /\ \E d \in 1..3 :
                 /\ i - d >= 1
                 /\ Utf8Width(s[i - d]) > d
                 /\ \A m \in 1..(d - 1) : IsCont(s[i - m])

----------------------------------------------------------------------------
(* The typed decoder: Relish::parse_value for each implementing type,      *)
(* parse.rs parse / parse_tlv / parse_value_for_typeid, StructParser, and  *)
(* the parse_value the derive macro generates.                             *)
(*                                                                         *)
(* Values.  Null is <<>>; bool is a BOOLEAN; an integer is its digit       *)
(* sequence; a String is its UTF-8 bytes; a Vec is a sequence; a HashMap   *)
(* is a sequence of <<key, value>> pairs with distinct keys (the order is  *)
(* its iteration order); a struct is the sequence of its fields by         *)
(* ascending id, an Option field being <<>> or <<v>>; an enum value is     *)
(* <<variant id, payload>>.                                                *)

RECURSIVE parse_value(_, _)
RECURSIVE parse_value_for_typeid(_, _, _)
RECURSIVE parse_tlv(_, _)
RECURSIVE VecElements(_, _, _, _)
RECURSIVE MapEntries(_, _, _, _, _, _)
RECURSIVE read_value_for_field_id(_, _, _)
RECURSIVE StructFields(_, _, _, _)

\* parse_value_for_typeid::<T>: rest is what data holds afterwards.
parse_value_for_typeid(T, data, type_id) ==
    Try(read_value_for_typeid(data, type_id), LAMBDA value_data :
    Try(parse_value(T, value_data.val), LAMBDA v :
        Ok(v.val, value_data.rest)))

\* parse_tlv::<T>
parse_tlv(T, data) ==
    Try(read_for_type(T, data), LAMBDA type_id :
        parse_value_for_typeid(T, type_id.rest, type_id.val))

\* The while loop of Vec<T>::parse_value.  An iteration that consumes
\* nothing leaves data non-empty for ever.
VecElements(T, elem_type, data, elements) ==
    IF data = <<>> THEN Ok(elements, data)
    ELSE Try(parse_value_for_typeid(T, data, elem_type), LAMBDA e :
             IF Len(e.rest) = Len(data) THEN Diverge
             ELSE VecElements(T, elem_type, e.rest, Append(elements, e.val)))

\* A loop over the entries in which a later entry silently replaces an
\* earlier one of the same key.
MapEntries_overwriting(K, V, key_type, value_type, data, map) ==
    IF data = <<>> THEN Ok(map, data)
    ELSE Try(parse_value_for_typeid(K, data, key_type), LAMBDA key :
         Try(parse_value_for_typeid(V, key.rest, value_type), LAMBDA val :
             MapEntries(K, V, key_type, value_type, val.rest,
                        SelectSeq(map, LAMBDA e : e[1] # key.val)
                            \o << <<key.val, val.val>> >>)))

\* The while loop of HashMap<K, V>::parse_value; map.insert returns Some
\* when the key is already present.
MapEntries(K, V, key_type, value_type, data, map) ==
    IF data = <<>> THEN Ok(map, data)
    ELSE Try(parse_value_for_typeid(K, data, key_type), LAMBDA key :
         Try(parse_value_for_typeid(V, key.rest, value_type), LAMBDA val :
             IF \E i \in 1..Len(map) : map[i][1] = key.val
             THEN Err("DuplicateMapKey", 0, 0)
             ELSE MapEntries(K, V, key_type, value_type, val.rest,
                             Append(map, <<key.val, val.val>>))))

\* StructParser: data is what its reader still holds, last is
\* last_seen_field_id (None is NoField).  The rest of a StructParser
\* method's result is the parser as the call leaves it.
NoField == -1

StructParser_new(data) == [data |-> data, last |-> NoField]

\* A peek that does not look at the high bit of the field id.
peek_field_id_unchecked(parser) ==
    IF parser.data = <<>> THEN Ok(NoField, parser)
    ELSE Ok(parser.data[1], parser)

\* StructParser::peek_field_id: Ok(None) is Ok(NoField).
peek_field_id(parser) ==
    IF parser.data = <<>> THEN Ok(NoField, parser)
    ELSE IF parser.data[1] >= 128 THEN Err("InvalidFieldId", parser.data[1], 0)
    ELSE Ok(parser.data[1], parser)

\* A skip that parses the bool or string it passes over.
skip_current_field_validating(parser) ==
    Try(read_byte(parser.data), LAMBDA field_id :
    Try(read_byte(field_id.rest), LAMBDA type_byte :
        IF from_byte(type_byte.val) = NoTypeId
        THEN Err("InvalidTypeId", type_byte.val, 0)
        ELSE Try(read_value_for_typeid(type_byte.rest, from_byte(type_byte.val)),
                 LAMBDA v :
                     IF from_byte(type_byte.val) \in {TBool, TString}
                     THEN Try(parse_value(Prim(from_byte(type_byte.val)), v.val),
                              LAMBDA parsed : Ok(<<>>, [parser EXCEPT !.data = v.rest]))
                     ELSE Ok(<<>>, [parser EXCEPT !.data = v.rest]))))

\* StructParser::skip_current_field
skip_current_field(parser) ==
    Try(read_byte(parser.data), LAMBDA field_id :
    Try(read_byte(field_id.rest), LAMBDA type_byte :
        IF from_byte(type_byte.val) = NoTypeId
        THEN Err("InvalidTypeId", type_byte.val, 0)
        ELSE Try(read_value_for_typeid(type_byte.rest, from_byte(type_byte.val)),
                 LAMBDA v : Ok(<<>>, [parser EXCEPT !.data = v.rest]))))

\* The order check both loops make on the peeked field id.
OrderViolation(parser, field_id) == parser.last # NoField /\ field_id <= parser.last

\* A read that records the id of a field ahead of its target as seen.
RECURSIVE read_value_for_field_id_marking_ahead(_, _, _)
read_value_for_field_id_marking_ahead(T, parser, target_field_id) ==
    Try(peek_field_id(parser), LAMBDA peek :
        IF peek.val = NoField THEN Ok(<<>>, parser)
        ELSE IF OrderViolation(parser, peek.val)
             THEN Err("FieldOrderViolation", parser.last, peek.val)
        ELSE IF peek.val < target_field_id
             THEN Try(skip_current_field([parser EXCEPT !.last = peek.val]),
                      LAMBDA skipped :
                          read_value_for_field_id_marking_ahead(T, skipped.rest,
                                                                target_field_id))
        ELSE IF peek.val = target_field_id
             THEN Try(read_byte(parser.data), LAMBDA field_id :
                  Try(read_for_type(T, field_id.rest), LAMBDA type_id :
                  Try(read_value_for_typeid(type_id.rest, type_id.val), LAMBDA value_data :
                  Try(parse_value(T, value_data.val), LAMBDA v :
                      Ok(<<v.val>>, [data |-> value_data.rest, last |-> peek.val])))))
        ELSE Ok(<<>>, [parser EXCEPT !.last = peek.val]))

\* StructParser::read_value_for_field_id::<T>(target_field_id): val is <<>>
\* for None, <<v>> for Some(v).
read_value_for_field_id(T, parser, target_field_id) ==
    Try(peek_field_id(parser), LAMBDA peek :
        IF peek.val = NoField THEN Ok(<<>>, parser)
        ELSE IF OrderViolation(parser, peek.val)
             THEN Err("FieldOrderViolation", parser.last, peek.val)
        ELSE IF peek.val < target_field_id
             THEN Try(skip_current_field([parser EXCEPT !.last = peek.val]),
                      LAMBDA skipped :
                          read_value_for_field_id(T, skipped.rest, target_field_id))
        ELSE IF peek.val = target_field_id
             THEN Try(read_byte(parser.data), LAMBDA field_id :
                  Try(read_for_type(T, field_id.rest), LAMBDA type_id :
                  Try(read_value_for_typeid(type_id.rest, type_id.val), LAMBDA value_data :
                  Try(parse_value(T, value_data.val), LAMBDA v :
                      Ok(<<v.val>>, [data |-> value_data.rest, last |-> peek.val])))))
        ELSE Ok(<<>>, parser))

\* A finish that takes any field left over as an error.
finish_without_skip(parser) ==
    Try(peek_field_id(parser), LAMBDA peek :
        IF peek.val = NoField THEN Ok(<<>>, parser)
        ELSE Err("ExtraData", Len(parser.data), 0))

\* StructParser::finish.  The loop skips every remaining field and
\* compares each to last_seen_field_id, which it does not update.
RECURSIVE finish(_)
finish(parser) ==
    Try(peek_field_id(parser), LAMBDA peek :
        IF peek.val = NoField THEN Ok(<<>>, parser)
        ELSE IF OrderViolation(parser, peek.val)
             THEN Err("FieldOrderViolation", parser.last, peek.val)
        ELSE Try(skip_current_field(parser), LAMBDA skipped : finish(skipped.rest)))

\* A conversion that lets a required field be absent.
from_option_lenient(T, read) ==
    Ok([i \in 1..Len(read) |->
            IF T.opt[i] \/ read[i] = <<>> THEN read[i] ELSE read[i][1]], <<>>)

\* FieldValue::from_option over the fields read, in declaration (id) order:
\* the first required field that is absent fails the parse.
from_option(T, read) ==
    IF \E i \in 1..Len(read) : ~T.opt[i] /\ read[i] = <<>>
    THEN Err("MissingRequiredField", 0, 0)
    ELSE Ok([i \in 1..Len(read) |-> IF T.opt[i] THEN read[i] ELSE read[i][1]], <<>>)

\* The generated struct parse_value: one read_value_for_field_id per
\* declared field by ascending id, then finish, then from_option.
StructFields(T, i, parser, read) ==
    IF i > Len(T.ids)
    THEN Try(finish(parser), LAMBDA finished : from_option(T, read))
    ELSE Try(read_value_for_field_id(T.sub[i], parser, T.ids[i]), LAMBDA field :
             StructFields(T, i + 1, field.rest, Append(read, field.val)))

\* The variant a variant id selects (0 when the enum declares none such).
VariantIndex(T, id) ==
    IF \E i \in 1..Len(T.ids) : T.ids[i] = id
    THEN CHOOSE i \in 1..Len(T.ids) : T.ids[i] = id
    ELSE 0

\* An enum parse_value that does not look at what the payload left unread.
EnumParseValue_without_fit(T, data) ==
    Try(read_byte(data), LAMBDA field_id :
        IF field_id.val >= 128 THEN Err("InvalidFieldId", field_id.val, 0)
        ELSE IF VariantIndex(T, field_id.val) = 0
             THEN Err("UnknownVariant", field_id.val, 0)
        ELSE Try(parse_tlv(T.sub[VariantIndex(T, field_id.val)], field_id.rest),
                 LAMBDA result : Ok(<<field_id.val, result.val>>, <<>>)))

\* An enum parse_value that matches the variant id without the high-bit test.
EnumParseValue_unchecked_id(T, data) ==
    Try(read_byte(data), LAMBDA field_id :
        IF VariantIndex(T, field_id.val) = 0
        THEN Err("UnknownVariant", field_id.val, 0)
        ELSE Try(parse_tlv(T.sub[VariantIndex(T, field_id.val)], field_id.rest),
                 LAMBDA result :
                     IF result.rest # <<>> THEN Err("ExtraData", Len(result.rest), 0)
                     ELSE Ok(<<field_id.val, result.val>>, result.rest)))

\* The generated enum parse_value.
EnumParseValue(T, data) ==
    Try(read_byte(data), LAMBDA field_id :
        IF field_id.val >= 128 THEN Err("InvalidFieldId", field_id.val, 0)
        ELSE IF VariantIndex(T, field_id.val) = 0
             THEN Err("UnknownVariant", field_id.val, 0)
        ELSE Try(parse_tlv(T.sub[VariantIndex(T, field_id.val)], field_id.rest),
                 LAMBDA result :
                     IF result.rest # <<>> THEN Err("ExtraData", Len(result.rest), 0)
                     ELSE Ok(<<field_id.val, result.val>>, result.rest)))

\* Vec<T>::parse_value.  elements.reserve(data.len() / size) divides by the
\* element type's fixed size.
VecParseValue(T, data) ==
    Try(read_for_type(T.sub[1], data), LAMBDA elem_type :
        IF length(elem_type.val) = 0 THEN Panic("DivideByZero")
        ELSE VecElements(T.sub[1], elem_type.val, elem_type.rest, <<>>))

\* HashMap<K, V>::parse_value
MapParseValue(T, data) ==
    Try(read_for_type(T.sub[1], data), LAMBDA key_type :
    Try(read_for_type(T.sub[2], key_type.rest), LAMBDA value_type :
        MapEntries(T.sub[1], T.sub[2], key_type.val, value_type.val,
                   value_type.rest, <<>>)))

\* A bool decoder that takes every non-zero byte as true.
BoolParseValue_nonzero(data) ==
    IF data = <<>> THEN Panic("IndexOutOfBounds")
    ELSE IF data[1] = 0 THEN Ok(FALSE, data)
    ELSE Ok(TRUE, data)

\* bool::parse_value indexes data[0] without a length check.
BoolParseValue(data) ==
    IF data = <<>> THEN Panic("IndexOutOfBounds")
    ELSE IF data[1] = 0 THEN Ok(FALSE, data)
    ELSE IF data[1] = 255 THEN Ok(TRUE, data)
    ELSE Err("InvalidBoolValue", data[1], 0)

\* impl_relish_integer!: parse_value
IntParseValue(T, data) ==
    Try(Read(data, length(T.k)), LAMBDA bytes :
        Ok(from_le_bytes(T.k, bytes.val), bytes.rest))

\* String::parse_value
StringParseValue(data) ==
    IF IsUtf8(data) THEN Ok(data, data) ELSE Err("InvalidUtf8", 0, 0)

\* <T as Relish>::parse_value(data): data is the carved value slice.
parse_value(T, data) ==
    CASE T.k = TNull -> Ok(<<>>, data)
      [] T.k = TBool -> BoolParseValue(data)
      [] T.k \in IntegerTypes -> IntParseValue(T, data)
      [] T.k = TString -> StringParseValue(data)
      [] T.k = TArray -> VecParseValue(T, data)
      [] T.k = TMap -> MapParseValue(T, data)
      [] T.k = TStruct -> StructFields(T, 1, StructParser_new(data), <<>>)
      [] T.k = TEnum -> EnumParseValue(T, data)

\* A parse that does not look at what the value left of the buffer.
parse_without_extra_check(T, data) ==
    Try(parse_tlv(T, data), LAMBDA result : Ok(result.val, <<>>))

\* parse.rs parse::<T>
parse(T, data) ==
    Try(parse_tlv(T, data), LAMBDA result :
        IF result.rest # <<>> THEN Err("ExtraData", Len(result.rest), 0)
        ELSE Ok(result.val, <<>>))

----------------------------------------------------------------------------
(* The typed encoder: Relish::value_length and Relish::write_value for     *)
(* each implementing type, the generated struct and enum writers, to_vec.  *)

RECURSIVE value_length(_, _)
RECURSIVE write_value(_, _)
RECURSIVE WriteEach(_, _, _)

\* as_relish: the fields of a struct value that are present, as indices.
Present(T, v) == {i \in 1..Len(T.ids) : ~T.opt[i] \/ v[i] # <<>>}

\* FieldValue::as_relish on a present field.
as_relish(T, v, i) == IF T.opt[i] THEN v[i][1] ELSE v[i]

\* The content length each writer (and value_length) sums up before it
\* writes the length prefix.
content_len(T, v) ==
    CASE T.k = TString -> Len(v)
      [] T.k = TArray ->
            1 + SumSeq([i \in 1..Len(v) |-> value_length(T.sub[1], v[i])])
      [] T.k = TMap ->
            2 + SumSeq([i \in 1..Len(v) |->
                    value_length(T.sub[1], v[i][1]) + value_length(T.sub[2], v[i][2])])
      [] T.k = TStruct ->
            SumSeq([i \in 1..Len(T.ids) |->
                    IF i \in Present(T, v)
                    THEN 1 + 1 + value_length(T.sub[i], as_relish(T, v, i))
                    ELSE 0])
      [] T.k = TEnum ->
            LET i == CHOOSE j \in 1..Len(T.ids) : T.ids[j] = v[1]
            IN  1 + 1 + value_length(T.sub[i], v[2])

\* <T as Relish>::value_length
value_length(T, v) ==
    IF length(T.k) # Varsize THEN length(T.k)
    ELSE tagged_varint_length_size(content_len(T, v)) + content_len(T, v)

\* Writes items[i] = <<type, value, bytes pushed before it>> in order; the
\* first write that fails ends the whole write.
WriteEach(items, i, buffer) ==
    IF i > Len(items) THEN Ok(buffer, <<>>)
    ELSE LET w == write_value(items[i][1], items[i][2])
         IN  IF ~IsOk(w) THEN w
             ELSE WriteEach(items, i + 1, buffer \o items[i][3] \o w.val)

\* What each variable-size writer writes after the length prefix.
ContentItems(T, v) ==
    CASE T.k = TArray -> [i \in 1..Len(v) |-> <<T.sub[1], v[i], <<>> >>]
      [] T.k = TMap ->
            [j \in 1..(2 * Len(v)) |->
                IF j % 2 = 1 THEN <<T.sub[1], v[(j + 1) \div 2][1], <<>> >>
                ELSE <<T.sub[2], v[j \div 2][2], <<>> >>]
      [] T.k = TStruct ->
            LET RECURSIVE Fields(_)
                Fields(i) ==
                    IF i > Len(T.ids) THEN <<>>
                    ELSE (IF i \in Present(T, v)
                          THEN << <<T.sub[i], as_relish(T, v, i), <<T.ids[i], T.sub[i].k>> >> >>
                          ELSE <<>>) \o Fields(i + 1)
            IN  Fields(1)
      [] T.k = TEnum ->
            LET i == CHOOSE j \in 1..Len(T.ids) : T.ids[j] = v[1]
            IN  << <<T.sub[i], v[2], <<T.ids[i], T.sub[i].k>> >> >>

\* A header that names a map's value type before its key type.
ContentHeader_swapped(T) ==
    CASE T.k = TArray -> <<T.sub[1].k>>
      [] T.k = TMap -> <<T.sub[2].k, T.sub[1].k>>
      [] OTHER -> <<>>

\* The bytes a container writes between the length prefix and its items.
ContentHeader(T) ==
    CASE T.k = TArray -> <<T.sub[1].k>>
      [] T.k = TMap -> <<T.sub[1].k, T.sub[2].k>>
      [] OTHER -> <<>>

\* <T as Relish>::write_value: val is the bytes appended to the buffer.
write_value(T, v) ==
    CASE T.k = TNull -> Ok(<<>>, <<>>)
      [] T.k = TBool -> Ok(IF v THEN <<255>> ELSE <<0>>, <<>>)
      [] T.k \in IntegerTypes -> Ok(to_le_bytes(T.k, v), <<>>)
      [] T.k = TString ->
            LET prefix == write_tagged_varint_length(Len(v))
            IN  IF ~IsOk(prefix) THEN prefix ELSE Ok(prefix.val \o v, <<>>)
      [] OTHER ->
            LET prefix == write_tagged_varint_length(content_len(T, v))
            IN  IF ~IsOk(prefix) THEN prefix
                ELSE WriteEach(ContentItems(T, v), 1, prefix.val \o ContentHeader(T))

\* write.rs to_vec
to_vec(T, v) ==
    LET w == write_value(T, v)
    IN  IF ~IsOk(w) THEN w ELSE Ok(<<T.k>> \o w.val, <<>>)

----------------------------------------------------------------------------
(* relish_ascii: the schema-less decoder.  A Value is [t, v]: t the wire   *)
(* type; v the payload: <<>> for Null, a BOOLEAN, an integer's digits, a   *)
(* String's bytes, <<element_type, elements>> for an Array,                *)
(* <<key_type, value_type, entries>> for a Map, the sequence of            *)
(* <<field_id, Value>> for a Struct, <<variant_id, Value>> for an Enum.    *)

Val(t, v) == [t |-> t, v |-> v]

RECURSIVE parse_typed_value(_, _)
RECURSIVE ArrayElements(_, _, _)
RECURSIVE SlMapEntries(_, _, _, _)
RECURSIVE SlStructFields(_, _)

\* TypeId::from_byte(byte).ok_or_else(InvalidTypeId(byte))?
type_id_of(byte, rest) ==
    IF from_byte(byte) = NoTypeId THEN Err("InvalidTypeId", byte, 0)
    ELSE Ok(from_byte(byte), rest)

\* parse_binary.rs parse_value: type byte, then parse_typed_value.
sl_parse_value(reader) ==
    Try(read_byte(reader), LAMBDA type_byte :
    Try(type_id_of(type_byte.val, type_byte.rest), LAMBDA type_id :
        parse_typed_value(type_id.rest, type_id.val)))

\* The while loop of the TypeId::Array arm.  An iteration that consumes
\* nothing leaves content non-empty for ever.
ArrayElements(element_type, content, elements) ==
    IF content = <<>> THEN Ok(elements, content)
    ELSE Try(parse_typed_value(content, element_type), LAMBDA e :
             IF Len(e.rest) = Len(content) THEN Diverge
             ELSE ArrayElements(element_type, e.rest, Append(elements, e.val)))

\* The while loop of the TypeId::Map arm: entries are pushed, never compared.
SlMapEntries(key_type, value_type, content, entries) ==
    IF content = <<>> THEN Ok(entries, content)
    ELSE Try(parse_typed_value(content, key_type), LAMBDA key :
         Try(parse_typed_value(key.rest, value_type), LAMBDA val :
             IF Len(val.rest) = Len(content) THEN Diverge
             ELSE SlMapEntries(key_type, value_type, val.rest,
                               Append(entries, <<key.val, val.val>>))))

\* A loop that takes a field id not above the one before it as an error.
RECURSIVE SlStructFields_ordered(_, _)
SlStructFields_ordered(content, fields) ==
    IF content = <<>> THEN Ok(fields, content)
    ELSE Try(read_byte(content), LAMBDA field_id :
             IF fields # <<>> /\ field_id.val <= fields[Len(fields)][1]
             THEN Err("FieldOrderViolation", fields[Len(fields)][1], field_id.val)
             ELSE Try(sl_parse_value(field_id.rest), LAMBDA v :
                      SlStructFields_ordered(v.rest, Append(fields, <<field_id.val, v.val>>))))

\* A loop that puts each field in front of the ones read before it.
RECURSIVE SlStructFields_prepending(_, _)
SlStructFields_prepending(content, fields) ==
    IF content = <<>> THEN Ok(fields, content)
    ELSE Try(read_byte(content), LAMBDA field_id :
             IF field_id.val >= 128 THEN Err("InvalidFieldId", field_id.val, 0)
             ELSE Try(sl_parse_value(field_id.rest), LAMBDA v :
                      SlStructFields_prepending(v.rest,
                                                << <<field_id.val, v.val>> >> \o fields)))

\* The while loop of the TypeId::Struct arm.
SlStructFields(content, fields) ==
    IF content = <<>> THEN Ok(fields, content)
    ELSE Try(read_byte(content), LAMBDA field_id :
             IF field_id.val >= 128 THEN Err("InvalidFieldId", field_id.val, 0)
             ELSE Try(sl_parse_value(field_id.rest), LAMBDA v :
                      SlStructFields(v.rest, Append(fields, <<field_id.val, v.val>>))))

\* The TypeId::Array arm
SlArray(content) ==
    Try(read_byte(content), LAMBDA elem_type_byte :
    Try(type_id_of(elem_type_byte.val, elem_type_byte.rest), LAMBDA element_type :
    Try(ArrayElements(element_type.val, element_type.rest, <<>>), LAMBDA elements :
        Ok(Val(TArray, <<element_type.val, elements.val>>), <<>>))))

\* The TypeId::Map arm
SlMap(content) ==
    Try(read_byte(content), LAMBDA key_type_byte :
    Try(type_id_of(key_type_byte.val, key_type_byte.rest), LAMBDA key_type :
    Try(read_byte(key_type.rest), LAMBDA value_type_byte :
    Try(type_id_of(value_type_byte.val, value_type_byte.rest), LAMBDA value_type :
    Try(SlMapEntries(key_type.val, value_type.val, value_type.rest, <<>>), LAMBDA entries :
        Ok(Val(TMap, <<key_type.val, value_type.val, entries.val>>), <<>>))))))

\* The TypeId::Struct arm
SlStruct(content) ==
    Try(SlStructFields(content, <<>>), LAMBDA fields :
        Ok(Val(TStruct, fields.val), <<>>))

\* The TypeId::Enum arm
SlEnum(content) ==
    Try(read_byte(content), LAMBDA variant_id :
        IF variant_id.val >= 128 THEN Err("InvalidFieldId", variant_id.val, 0)
        ELSE Try(sl_parse_value(variant_id.rest), LAMBDA v :
                 IF v.rest # <<>> THEN Err("ExtraData", Len(v.rest), 0)
                 ELSE Ok(Val(TEnum, <<variant_id.val, v.val>>), <<>>)))

\* The typed parse_value an arm of a scalar type delegates to.
SlScalarParse(type_id, content) ==
    CASE type_id = TNull -> Ok(<<>>, content)
      [] type_id = TBool -> BoolParseValue(content)
      [] type_id = TTimestamp -> IntParseValue(Prim(TU64), content)
      [] type_id = TString -> StringParseValue(content)
      [] type_id \in IntegerTypes -> IntParseValue(Prim(type_id), content)

\* One arm of the match for the scalar types.
SlScalar(type_id, content) ==
    Try(SlScalarParse(type_id, content), LAMBDA p : Ok(Val(type_id, p.val), <<>>))

\* The match of parse_typed_value on the carved content.
SlMatch(type_id, content) ==
    CASE type_id = TArray -> SlArray(content)
      [] type_id = TMap -> SlMap(content)
      [] type_id = TStruct -> SlStruct(content)
      [] type_id = TEnum -> SlEnum(content)
      [] type_id \notin {TArray, TMap, TStruct, TEnum} -> SlScalar(type_id, content)

\* parse_binary.rs parse_typed_value: rest is what reader holds afterwards.
parse_typed_value(reader, type_id) ==
    Try(read_value_for_typeid(reader, type_id), LAMBDA content :
    Try(SlMatch(type_id, content.val), LAMBDA v :
        Ok(v.val, content.rest)))

\* parse_binary.rs from_bytes
from_bytes(data) ==
    Try(sl_parse_value(data), LAMBDA v :
        IF v.rest # <<>> THEN Err("ExtraData", Len(v.rest), 0)
        ELSE Ok(v.val, <<>>))

----------------------------------------------------------------------------
(* Bounded universes of types and of well-formed values.                   *)

MaxElems == 2

\* Schemas after the types the repository's tests declare.
U8T == Prim(TU8)
U32T == Prim(TU32)
BoolT == Prim(TBool)
NullT == Prim(TNull)
StringT == Prim(TString)
MultiField == StructOf(<<0, 1, 5>>, <<U32T, StringT, BoolT>>, <<FALSE, FALSE, FALSE>>)
WithOption == StructOf(<<0, 1>>, <<U32T, U32T>>, <<FALSE, TRUE>>)
EmptyStruct == StructOf(<<>>, <<>>, <<>>)
Inner == StructOf(<<0>>, <<U32T>>, <<FALSE>>)
Outer == StructOf(<<0, 1>>, <<Inner, U8T>>, <<FALSE, TRUE>>)
SimpleEnum == EnumOf(<<0, 1>>, <<U32T, StringT>>)
EnumWithStruct == EnumOf(<<0, 1>>, <<U8T, Inner>>)

RoundTripSchemas ==
    { NullT, BoolT, U8T, Prim(TU16), U32T, Prim(TI8), Prim(TI16), Prim(TI32),
      StringT, VecOf(U32T), VecOf(StringT), VecOf(NullT), VecOf(VecOf(BoolT)),
      VecOf(BoolT), MapOf(U8T, StringT), MapOf(StringT, BoolT),
      MultiField, WithOption, EmptyStruct, Outer, SimpleEnum, EnumWithStruct,
      VecOf(SimpleEnum) }

\* A string long enough to need the four-byte length prefix.
LongString == [i \in 1..130 |-> 97]

StringSamples == { <<>>, <<97>>, <<107, 101, 121>>, <<195, 169>>, LongString }

\* Every product of the sets in the sequence sets.
RECURSIVE ProductSeq(_)
ProductSeq(sets) ==
    IF sets = <<>> THEN {<<>>}
    ELSE {<<h>> \o t : h \in Head(sets), t \in ProductSeq(Tail(sets))}

\* Digit sequences of an integer type: each digit extreme or small.
IntSamples(type_id) ==
    LET n == length(type_id)
        nd == (n + 1) \div 2
        top == IF n = 1 THEN 256 ELSE 65536
        low == {0, 42, top - 1}
        high == IF type_id \in SignedTypes
                THEN {0, 42, (top \div 2) - 1, -1, -(top \div 2)} ELSE low
    IN  ProductSeq([i \in 1..nd |-> IF i = nd THEN high ELSE low])

NoDuplicateKeys(entries) ==
    \A i, j \in 1..Len(entries) : i # j => entries[i][1] # entries[j][1]

RECURSIVE ValuesOf(_)
ValuesOf(T) ==
    CASE T.k = TNull -> {<<>>}
      [] T.k = TBool -> {TRUE, FALSE}
      [] T.k \in IntegerTypes -> IntSamples(T.k)
      [] T.k = TString -> StringSamples
      [] T.k = TArray -> SeqUpTo(ValuesOf(T.sub[1]), MaxElems)
      [] T.k = TMap ->
            {m \in SeqUpTo(ValuesOf(T.sub[1]) \X ValuesOf(T.sub[2]), MaxElems) :
                NoDuplicateKeys(m)}
      [] T.k = TStruct ->
            ProductSeq([i \in 1..Len(T.ids) |->
                IF T.opt[i] THEN {<<>>} \cup {<<v>> : v \in ValuesOf(T.sub[i])}
                ELSE ValuesOf(T.sub[i])])
      [] T.k = TEnum ->
            UNION {{<<T.ids[i], v>> : v \in ValuesOf(T.sub[i])} : i \in 1..Len(T.ids)}

\* Equality of two values of type T (HashMap equality ignores the order).
RECURSIVE ValEq(_, _, _)
ValEq(T, x, y) ==
    CASE T.k = TArray ->
            Len(x) = Len(y) /\ \A i \in 1..Len(x) : ValEq(T.sub[1], x[i], y[i])
      [] T.k = TMap ->
            /\ Len(x) = Len(y)
            /\ \A i \in 1..Len(x) : \E j \in 1..Len(y) :
                  ValEq(T.sub[1], x[i][1], y[j][1]) /\ ValEq(T.sub[2], x[i][2], y[j][2])
      [] T.k = TStruct ->
            \A i \in 1..Len(T.ids) :
                IF T.opt[i]
                THEN Len(x[i]) = Len(y[i])
                     /\ (x[i] # <<>> => ValEq(T.sub[i], x[i][1], y[i][1]))
                ELSE ValEq(T.sub[i], x[i], y[i])
      [] T.k = TEnum ->
            /\ x[1] = y[1]
            /\ LET i == CHOOSE j \in 1..Len(T.ids) : T.ids[j] = x[1]
               IN  ValEq(T.sub[i], x[2], y[2])
      [] OTHER -> x = y

----------------------------------------------------------------------------
(* Round trip: to_vec(value), then parse::<T> of the bytes written.        *)

NoAux == [n |-> 0]

InitRoundTrip ==
    /\ mode = "roundtrip"
    /\ phase = "init"
    /\ schema \in RoundTripSchemas
    /\ value \in ValuesOf(schema)
    /\ wire = <<>>
    /\ typed = NoResult
    /\ dyn = NoResult
    /\ aux = NoAux

\* to_vec(&value); aux.n records value.value_length().
ToVec ==
    /\ mode = "roundtrip" /\ phase = "init"
    /\ IsOk(to_vec(schema, value))
    /\ wire' = to_vec(schema, value).val
    /\ aux' = [n |-> value_length(schema, value)]
    /\ phase' = "written"
    /\ UNCHANGED <<mode, schema, value, typed, dyn>>

\* parse::<T>(Bytes::from(wire))
ParseWritten ==
    /\ mode = "roundtrip" /\ phase = "written"
    /\ typed' = parse(schema, wire)
    /\ phase' = "parsed"
    /\ UNCHANGED <<mode, schema, value, wire, dyn, aux>>

NextRoundTrip == ToVec \/ ParseWritten

SpecRoundTrip == InitRoundTrip /\ [][NextRoundTrip]_vars

\* C1: round trip: for every well-formed value v of every supported type,
\* arrays of Null included, parse(to_vec(v)) returns Ok(v).
C1_RoundTrip ==
    (mode = "roundtrip" /\ phase = "parsed")
        => IsOk(typed) /\ ValEq(schema, typed.val, value)

\* C6: length agreement: value_length(v) is the number of bytes write_value
\* appends, to_vec(v) has 1 + value_length(v) bytes, and the length prefix
\* of a variable-size value is the number of content bytes that follow it.
C6_LengthAgreement ==
    (mode = "roundtrip" /\ phase \in {"written", "parsed"}) =>
        /\ Len(write_value(schema, value).val) = aux.n
        /\ Len(wire) = 1 + aux.n
        /\ length(schema.k) = Varsize =>
              LET prefix == read_tagged_varint_length(Drop(wire, 1))
              IN  IsOk(prefix) /\ prefix.val = Len(prefix.rest)

\* C6 witness: a struct with an absent optional field and a string whose
\* length prefix takes four bytes have both been written.
C6_Witness ==
    /\ mode = "roundtrip" /\ phase = "written"
    /\ \/ schema = WithOption /\ value[2] = <<>> /\ aux.n = 7
       \/ schema = StringT /\ value = LongString /\ wire[2] % 2 = 1 /\ aux.n = 134

----------------------------------------------------------------------------
(* Arbitrary input: parse::<T> and from_bytes on any byte sequence.        *)

MaxWire == 4

\* Type ids, short length prefixes, both bool bytes and an invalid byte.
ByteAlphabet == {0, 1, 2, 4, 15, 255}

BytesSchemas == { BoolT, U8T, VecOf(NullT), VecOf(BoolT), VecOf(VecOf(NullT)), NullT }

InitBytes ==
    /\ mode = "bytes"
    /\ phase = "init"
    /\ schema \in BytesSchemas
    /\ value = <<>>
    /\ wire \in SeqUpTo(ByteAlphabet, MaxWire)
    /\ typed = NoResult
    /\ dyn = NoResult
    /\ aux = NoAux

\* parse::<T>(Bytes::from(wire))
Parse ==
    /\ mode = "bytes" /\ typed = NoResult
    /\ typed' = parse(schema, wire)
    /\ phase' = "decoded"
    /\ UNCHANGED <<mode, schema, value, wire, dyn, aux>>

\* relish_ascii::from_bytes(Bytes::from(wire))
FromBytes ==
    /\ mode = "bytes" /\ dyn = NoResult
    /\ dyn' = from_bytes(wire)
    /\ phase' = "decoded"
    /\ UNCHANGED <<mode, schema, value, wire, typed, aux>>

NextBytes == Parse \/ FromBytes

SpecBytes == InitBytes /\ [][NextBytes]_vars

\* C2: for every byte sequence and every target type, parse and from_bytes
\* return a value or a typed ParseError: no input makes decoding panic.
C2_NoPanic ==
    mode = "bytes" =>
        /\ typed.tag \in {"None", "Ok", "Err"}
        /\ dyn.tag \in {"None", "Ok", "Err"}

----------------------------------------------------------------------------
(* Struct payloads: a derived struct parser on any sequence of well-formed *)
(* records, then on the same payload with one more record appended.        *)
(* A record is [id, ty, val]: the field id byte, the type of the value and *)
(* the value; where the schema declares the id, ty is the declared type.   *)

MaxRecords == 3

\* Field ids on the wire, and the ids a later schema version may add.
RecordIds == {0, 1, 2, 3}
EvolveIds == {1, 2, 3, 4}

OnlyRequired == StructOf(<<0>>, <<U8T>>, <<FALSE>>)
RequiredAndOption == StructOf(<<0, 2>>, <<U8T, U8T>>, <<FALSE, TRUE>>)

OptionThenRequired == StructOf(<<1, 3>>, <<U8T, U8T>>, <<TRUE, FALSE>>)

StructSchemas == { EmptyStruct, OnlyRequired, RequiredAndOption, OptionThenRequired }

\* The types an undeclared field is written with.
UnknownFieldTypes == { NullT, U8T }

\* One value per record type.
RecordValue(T) == IF T.k = TNull THEN <<>> ELSE <<42>>

Declares(T, id) == \E i \in 1..Len(T.ids) : T.ids[i] = id

RecordsOf(T, ids) ==
    { [id |-> id, ty |-> ty, val |-> RecordValue(ty)] :
        id \in ids,
        ty \in UnknownFieldTypes \cup {T.sub[i] : i \in 1..Len(T.ids)} }

\* The records that agree with schema T on every id T declares.
WellTyped(T, r) ==
    IF Declares(T, r.id) THEN r.ty = T.sub[VariantIndex(T, r.id)]
    ELSE r.ty \in UnknownFieldTypes

\* The bytes of one record: field id, type byte, value.
RecordBytes(r) == <<r.id, r.ty.k>> \o write_value(r.ty, r.val).val

\* A struct payload holding the records, in the order given.
StructWire(records) ==
    LET content == Concat([i \in 1..Len(records) |-> RecordBytes(records[i])])
    IN  <<TStruct>> \o write_tagged_varint_length(Len(content)).val \o content

InitStruct ==
    /\ mode = "struct"
    /\ phase = "init"
    /\ schema \in StructSchemas
    /\ value = <<>>
    /\ aux \in { [records |-> rs, before |-> NoResult] :
                   rs \in SeqUpTo({r \in RecordsOf(schema, RecordIds) :
                                      WellTyped(schema, r)}, MaxRecords) }
    /\ wire = StructWire(aux.records)
    /\ typed = NoResult
    /\ dyn = NoResult

\* parse::<S>(payload)
ParseStruct ==
    /\ mode = "struct" /\ phase = "init"
    /\ typed' = parse(schema, wire)
    /\ phase' = "parsed"
    /\ UNCHANGED <<mode, schema, value, wire, dyn, aux>>

\* A payload that decoded gets one more record, of an id above every id
\* the schema declares, and is decoded again.
ParseEvolved ==
    /\ mode = "struct" /\ phase = "parsed" /\ IsOk(typed)
    /\ \E r \in RecordsOf(schema, EvolveIds) :
          /\ WellTyped(schema, r)
          /\ \A i \in 1..Len(schema.ids) : r.id > schema.ids[i]
          /\ aux' = [records |-> Append(aux.records, r), before |-> typed]
          /\ wire' = StructWire(Append(aux.records, r))
          /\ typed' = parse(schema, StructWire(Append(aux.records, r)))
    /\ phase' = "evolved"
    /\ UNCHANGED <<mode, schema, value, dyn>>

NextStruct == ParseStruct \/ ParseEvolved

SpecStruct == InitStruct /\ [][NextStruct]_vars

\* The on-wire field ids are strictly increasing.
StrictlyIncreasing(records) ==
    \A i \in 2..Len(records) : records[i].id > records[i - 1].id

\* C3: order enforcement: every struct payload whose on-wire field ids are
\* not strictly increasing fails with FieldOrderViolation, whatever fields
\* the schema declares.
C3_OrderEnforced ==
    (mode = "struct" /\ phase = "parsed" /\ ~StrictlyIncreasing(aux.records))
        => IsErr(typed, "FieldOrderViolation")

\* C4: additive evolution: a payload that decodes as S to v, with one more
\* well-formed record of an id above every id S declares appended, still
\* decodes as S, and to v.
C4_AdditiveEvolution ==
    (mode = "struct" /\ phase = "evolved" /\ IsOk(aux.before))
        => IsOk(typed) /\ typed.val = aux.before.val

\* C4 witness: a payload with a known and an unknown field decoded, was
\* given one more record, and decoded again.
C4_Witness ==
    /\ mode = "struct" /\ phase = "evolved"
    /\ schema = RequiredAndOption
    /\ Len(aux.records) = 3
    /\ aux.records[1].id = 0 /\ aux.records[2].id = 2 /\ aux.records[3].id = 3
    /\ IsOk(aux.before) /\ aux.before.val = << <<42>>, << <<42>> >> >>
    /\ IsOk(typed)

\* The payload holds a record of the field id.
OnWire(id) == \E j \in 1..Len(aux.records) : aux.records[j].id = id

\* C14: field presence: a struct payload that is otherwise valid (records
\* well-typed, ids strictly increasing) and omits a declared field parses
\* to the struct with that field None when the field is an Option<T>, and
\* fails with MissingRequiredField when the field is required.
C14_FieldPresence ==
    (mode = "struct" /\ phase = "parsed" /\ StrictlyIncreasing(aux.records)) =>
        IF \E i \in 1..Len(schema.ids) : ~schema.opt[i] /\ ~OnWire(schema.ids[i])
        THEN IsErrWith(typed, "MissingRequiredField", 0, 0)
        ELSE /\ IsOk(typed)
             /\ \A i \in 1..Len(schema.ids) :
                   IF ~schema.opt[i] THEN typed.val[i] = <<42>>
                   ELSE IF OnWire(schema.ids[i]) THEN typed.val[i] = << <<42>> >>
                   ELSE typed.val[i] = <<>>

\* C14 witness: a payload that omits the optional field, one that omits
\* the required field, each with an unknown field around, has been parsed.
C14_Witness ==
    /\ mode = "struct" /\ phase = "parsed" /\ StrictlyIncreasing(aux.records)
    /\ Len(aux.records) = 2
    /\ \/ /\ schema = RequiredAndOption /\ OnWire(0) /\ OnWire(1) /\ ~OnWire(2)
          /\ IsOk(typed) /\ typed.val = << <<42>>, <<>> >>
       \/ /\ schema = OptionThenRequired /\ OnWire(1) /\ OnWire(2) /\ ~OnWire(3)
          /\ IsErr(typed, "MissingRequiredField")

----------------------------------------------------------------------------
(* The tagged varint length codec on its own: write a length in front of   *)
(* a tail of other bytes, then read it back.                               *)

MaxSmallLength == 140

\* 2^e
RECURSIVE Pow2(_)
Pow2(e) == IF e = 0 THEN 1 ELSE 2 * Pow2(e - 1)

\* Every length up to MaxSmallLength, and around every power of two up to
\* the largest length there is.
LengthSamples ==
    (0..MaxSmallLength)
        \cup {Pow2(e) - 1 : e \in 1..30} \cup {Pow2(e) : e \in 1..30}
        \cup {Pow2(e) + 1 : e \in 1..30}
        \cup {MaxVarintLength - 1, MaxVarintLength}

TailSamples == { <<>>, <<0>>, <<255, 1>> }

InitVarint ==
    /\ mode = "varint"
    /\ phase = "init"
    /\ schema = NullT
    /\ value \in LengthSamples
    /\ wire = <<>>
    /\ typed = NoResult
    /\ dyn = NoResult
    /\ aux \in { [n |-> 0, tail |-> t] : t \in TailSamples }

\* write_tagged_varint_length(&mut buffer, value), the tail pushed after it;
\* aux.n is the number of bytes the call appended.
WriteLength ==
    /\ mode = "varint" /\ phase = "init"
    /\ IsOk(write_tagged_varint_length(value))
    /\ wire' = write_tagged_varint_length(value).val \o aux.tail
    /\ aux' = [aux EXCEPT !.n = Len(write_tagged_varint_length(value).val)]
    /\ phase' = "written"
    /\ UNCHANGED <<mode, schema, value, typed, dyn>>

\* read_tagged_varint_length(&mut BytesRef::new(&wire))
ReadLength ==
    /\ mode = "varint" /\ phase = "written"
    /\ typed' = read_tagged_varint_length(wire)
    /\ phase' = "read"
    /\ UNCHANGED <<mode, schema, value, wire, dyn, aux>>

NextVarint == WriteLength \/ ReadLength

SpecVarint == InitVarint /\ [][NextVarint]_vars

\* C5: varint round trip: reading what write_tagged_varint_length(l) wrote
\* returns l and consumes exactly those bytes; one byte is written iff
\* l < 128 and four otherwise, which is tagged_varint_length_size(l).
C5_VarintRoundTrip ==
    (mode = "varint" /\ phase = "read") =>
        /\ IsOk(typed) /\ typed.val = value /\ typed.rest = aux.tail
        /\ (aux.n = 1) <=> (value < 128)
        /\ aux.n \in {1, 4}
        /\ aux.n = tagged_varint_length_size(value)

\* C5 witness: the largest length, the first four-byte length and the last
\* one-byte length have been written and read back.
C5_Witness ==
    /\ mode = "varint" /\ phase = "read" /\ aux.tail # <<>>
    /\ \/ value = MaxVarintLength /\ aux.n = 4
       \/ value = 128 /\ aux.n = 4
       \/ value = 127 /\ aux.n = 1

----------------------------------------------------------------------------
(* Map payloads: both decoders on a map payload of well-formed entries,    *)
(* equal keys allowed.                                                     *)

MapSchemas == { MapOf(U8T, U8T), MapOf(StringT, BoolT), MapOf(BoolT, StringT) }

\* A map payload holding the entries, in the order given.
MapWire(T, entries) ==
    LET content ==
            Concat([i \in 1..Len(entries) |->
                write_value(T.sub[1], entries[i][1]).val
                    \o write_value(T.sub[2], entries[i][2]).val])
    IN  <<TMap>> \o write_tagged_varint_length(2 + Len(content)).val
            \o <<T.sub[1].k, T.sub[2].k>> \o content

InitMap ==
    /\ mode = "map"
    /\ phase = "init"
    /\ schema \in MapSchemas
    /\ value \in SeqUpTo(ValuesOf(schema.sub[1]) \X ValuesOf(schema.sub[2]), MaxElems)
    /\ wire = MapWire(schema, value)
    /\ typed = NoResult
    /\ dyn = NoResult
    /\ aux = NoAux

\* parse::<HashMap<K, V>>(payload)
ParseMap ==
    /\ mode = "map" /\ typed = NoResult
    /\ typed' = parse(schema, wire)
    /\ phase' = "decoded"
    /\ UNCHANGED <<mode, schema, value, wire, dyn, aux>>

\* relish_ascii::from_bytes(payload)
FromBytesMap ==
    /\ mode = "map" /\ dyn = NoResult
    /\ dyn' = from_bytes(wire)
    /\ phase' = "decoded"
    /\ UNCHANGED <<mode, schema, value, wire, typed, aux>>

NextMap == ParseMap \/ FromBytesMap

SpecMap == InitMap /\ [][NextMap]_vars

\* C8: map uniqueness, typed decoder: a map payload with two entries whose
\* decoded keys are equal fails to parse as HashMap<K, V> with
\* DuplicateMapKey.
C8_TypedMapUniqueness ==
    (mode = "map" /\ typed # NoResult /\ ~NoDuplicateKeys(value))
        => IsErrWith(typed, "DuplicateMapKey", 0, 0)

\* C8 witness: a payload with the same string key twice, under different
\* values, has been parsed.
C8_Witness ==
    /\ mode = "map" /\ typed # NoResult
    /\ schema = MapOf(StringT, BoolT)
    /\ Len(value) = 2
    /\ value[1][1] = <<107, 101, 121>> /\ value[2][1] = <<107, 101, 121>>
    /\ value[1][2] # value[2][2]
    /\ IsErr(typed, "DuplicateMapKey")

\* C9: no Value::Map the schema-less decoder returns has a key twice.
C9_ValueMapUniqueness ==
    (mode = "map" /\ IsOk(dyn) /\ dyn.val.t = TMap)
        => NoDuplicateKeys(dyn.val.v[3])

----------------------------------------------------------------------------
(* Enum payloads: both decoders on an enum payload whose content is the    *)
(* variant id, the encoding of a payload value, and then further bytes.    *)

MaxJunk == 2

JunkBytes == {0, 4, 255}

EnumSchemas == { SimpleEnum, EnumWithStruct }

\* An enum payload whose content is the variant id, the payload value as a
\* TLV, and junk.
EnumWire(T, v, junk) ==
    LET inner == to_vec(T.sub[VariantIndex(T, v[1])], v[2]).val
    IN  <<TEnum>> \o write_tagged_varint_length(1 + Len(inner) + Len(junk)).val
            \o <<v[1]>> \o inner \o junk

InitEnum ==
    /\ mode = "enum"
    /\ phase = "init"
    /\ schema \in EnumSchemas
    /\ value \in ValuesOf(schema)
    /\ aux \in { [n |-> 0, junk |-> j] : j \in SeqUpTo(JunkBytes, MaxJunk) }
    /\ wire = EnumWire(schema, value, aux.junk)
    /\ typed = NoResult
    /\ dyn = NoResult

\* parse::<E>(payload)
ParseEnum ==
    /\ mode = "enum" /\ typed = NoResult
    /\ typed' = parse(schema, wire)
    /\ phase' = "decoded"
    /\ UNCHANGED <<mode, schema, value, wire, dyn, aux>>

\* relish_ascii::from_bytes(payload)
FromBytesEnum ==
    /\ mode = "enum" /\ dyn = NoResult
    /\ dyn' = from_bytes(wire)
    /\ phase' = "decoded"
    /\ UNCHANGED <<mode, schema, value, wire, typed, aux>>

NextEnum == ParseEnum \/ FromBytesEnum

SpecEnum == InitEnum /\ [][NextEnum]_vars

\* C10: enum exact fit: when the inner value parses but leaves bytes of the
\* enum's content unread, the derived enum parser and the schema-less
\* decoder both fail with ExtraData{bytes_remaining = the bytes left}.
C10_EnumExactFit ==
    (mode = "enum" /\ aux.junk # <<>>) =>
        /\ typed # NoResult => IsErrWith(typed, "ExtraData", Len(aux.junk), 0)
        /\ dyn # NoResult => IsErrWith(dyn, "ExtraData", Len(aux.junk), 0)

\* C10 witness: a struct payload followed by two more bytes has been through
\* both decoders.
C10_Witness ==
    /\ mode = "enum" /\ schema = EnumWithStruct /\ value[1] = 1
    /\ Len(aux.junk) = 2
    /\ IsErr(typed, "ExtraData") /\ IsErr(dyn, "ExtraData")

----------------------------------------------------------------------------
(* relish_derive: what #[derive(Relish)] makes of a declaration.           *)
(* A declaration is [kind, named, items]; an item is a struct field or an  *)
(* enum variant, [id, skip, shape]: id is the number written in            *)
(* #[relish(field_id = ...)] (NoField without the attribute), skip is      *)
(* #[relish(skip)], shape is the form of an enum variant's payload, opt    *)
(* tells a struct field declared Option<u8> from one declared u8.          *)
(* An accepted declaration yields the type descriptor of the generated     *)
(* impl; every variant payload is a u8.                                    *)

MaxItems == 2

\* Literals a declaration may give as field_id; the last one is no u8.
DeclIds == {0, 127, 128, 255, 256}

U8Max == 255

\* id_str.parse::<u8>() fails.
NotU8(item) == item.id > U8Max

\* A field_info that keeps the order of declaration.
field_info_unsorted(items) ==
    SelectSeq([i \in 1..Len(items) |-> i], LAMBDA i : ~items[i].skip)

\* field_info (variant_info) after sort_by_key: the items kept, each named
\* by its place in the declaration, in ascending order of id.
field_info(items) ==
    SortSeq(SelectSeq([i \in 1..Len(items) |-> i], LAMBDA i : ~items[i].skip),
            LAMBDA a, b : items[a].id < items[b].id)

\* The ids of the items kept, in the order of field_info.
SortedIds(items) ==
    [k \in 1..Len(field_info(items)) |-> items[field_info(items)[k]].id]

\* The windows(2) loop: the first pair of equal neighbours.
DuplicateId(ids) ==
    IF \E i \in 1..(Len(ids) - 1) : ids[i] = ids[i + 1]
    THEN ids[CHOOSE i \in 1..(Len(ids) - 1) :
                /\ ids[i] = ids[i + 1]
                /\ \A j \in 1..(i - 1) : ids[j] # ids[j + 1]]
    ELSE NoField

\* The first item, in declaration order, the loop over the items rejects
\* (0: none); rejected[i] tells whether the loop rejects item i.
FirstRejected(rejected) ==
    IF \E i \in 1..Len(rejected) : rejected[i]
    THEN CHOOSE i \in 1..Len(rejected) :
            rejected[i] /\ \A j \in 1..(i - 1) : ~rejected[j]
    ELSE 0

\* impl_relish_struct
impl_relish_struct(decl) ==
    LET missing(f) == ~f.skip /\ f.id = NoField
        bad == FirstRejected([i \in 1..Len(decl.items) |->
                   NotU8(decl.items[i]) \/ missing(decl.items[i])])
        ids == SortedIds(decl.items)
    IN  IF ~decl.named THEN Err("OnlyNamedFields", 0, 0)
        ELSE IF bad # 0
             THEN IF NotU8(decl.items[bad])
                  THEN Err("FieldIdNotU8", decl.items[bad].id, 0)
                  ELSE Err("FieldIdMissing", bad, 0)
        ELSE IF DuplicateId(ids) # NoField THEN Err("DuplicateFieldId", DuplicateId(ids), 0)
        ELSE Ok(StructOf(ids, [k \in 1..Len(ids) |-> U8T],
                         [k \in 1..Len(ids) |->
                             decl.items[field_info(decl.items)[k]].opt]), <<>>)

\* impl_relish_enum
impl_relish_enum(decl) ==
    LET missing(v) == v.id = NoField
        bad == FirstRejected([i \in 1..Len(decl.items) |->
                   \/ NotU8(decl.items[i])
                   \/ missing(decl.items[i])
                   \/ decl.items[i].shape # "one_unnamed"])
        ids == SortedIds(decl.items)
    IN  IF bad # 0
        THEN IF NotU8(decl.items[bad])
             THEN Err("FieldIdNotU8", decl.items[bad].id, 0)
             ELSE IF missing(decl.items[bad]) THEN Err("FieldIdMissing", bad, 0)
             ELSE Err("UnsupportedVariant", bad, 0)
        ELSE IF DuplicateId(ids) # NoField THEN Err("DuplicateFieldId", DuplicateId(ids), 0)
        ELSE Ok(EnumOf(ids, [i \in 1..Len(ids) |-> U8T]), <<>>)

\* derive_relish_expand: dispatch on the kind of item derived for.
derive_relish_expand(decl) ==
    CASE decl.kind = "struct" -> impl_relish_struct(decl)
      [] decl.kind = "enum" -> impl_relish_enum(decl)
      [] decl.kind = "union" -> Err("UnionNotSupported", 0, 0)

Declarations ==
    { [kind |-> "struct", named |-> n, items |-> fs] :
        n \in BOOLEAN,
        fs \in SeqUpTo([id : DeclIds \cup {NoField}, skip : BOOLEAN,
                        shape : {"one_unnamed"}, opt : BOOLEAN], MaxItems) }
    \cup
    { [kind |-> "enum", named |-> FALSE, items |-> vs] :
        vs \in SeqUpTo([id : DeclIds \cup {NoField}, skip : {FALSE},
                        shape : {"one_unnamed", "unit"}, opt : {FALSE}], MaxItems) }
    \cup
    { [kind |-> "union", named |-> TRUE, items |-> <<>>] }

\* The u8 held by the field declared in place i.
FieldByte(i) == 40 + i

\* The values of a declared struct, field by field in the order declared:
\* an Option<u8> field is None or Some, and every field holds its own u8.
DeclaredValues(decl) ==
    ProductSeq([i \in 1..Len(decl.items) |->
        IF decl.items[i].opt THEN { <<>>, << <<FieldByte(i)>> >> }
        ELSE { <<FieldByte(i)>> }])

\* self.#name for each entry of field_info: the fields the generated code
\* reads, in the order it reads them.
SelfFields(decl, fields) ==
    [k \in 1..Len(field_info(decl.items)) |-> fields[field_info(decl.items)[k]]]

\* The values of a derived type handed to to_vec: the struct holding the
\* fields, or an enum as any variant holding 42.
DerivedValues(decl, T, fields) ==
    IF T.k = TStruct THEN { SelfFields(decl, fields) }
    ELSE { <<T.ids[i], <<42>> >> : i \in 1..Len(T.ids) }

\* The field id or variant id bytes in what a generated writer wrote: each
\* record is an id byte, a type byte and one byte of u8.
IdBytes(bytes) == { bytes[i] : i \in {j \in 3..Len(bytes) : j % 3 = 0} }

InitDerive ==
    /\ mode = "derive"
    /\ phase = "init"
    /\ schema = NullT
    /\ value = <<>>
    /\ wire = <<>>
    /\ typed = NoResult
    /\ dyn = NoResult
    /\ aux \in { [decl |-> d, fields |-> <<>>] : d \in Declarations }

\* The macro expands on the declaration.
Derive ==
    /\ mode = "derive" /\ phase = "init"
    /\ typed' = derive_relish_expand(aux.decl)
    /\ phase' = "derived"
    /\ UNCHANGED <<mode, schema, value, wire, dyn, aux>>

\* to_vec of a value of the type an accepted declaration declares;
\* aux.fields keeps the struct's fields in the order declared.
WriteDerived ==
    /\ mode = "derive" /\ phase = "derived" /\ IsOk(typed)
    /\ \E fields \in DeclaredValues(aux.decl) :
       \E v \in DerivedValues(aux.decl, typed.val, fields) :
          /\ IsOk(to_vec(typed.val, v))
          /\ value' = v
          /\ wire' = to_vec(typed.val, v).val
          /\ aux' = [aux EXCEPT !.fields = fields]
    /\ schema' = typed.val
    /\ phase' = "written"
    /\ UNCHANGED <<mode, typed, dyn>>

NextDerive == Derive \/ WriteDerived

SpecDerive == InitDerive /\ [][NextDerive]_vars

\* C7: the derive generator rejects every struct field and every enum
\* variant declared with an id >= 0x80, so no generated writer emits a
\* field-id or variant-id byte with the high bit set.
C7_HighIdsRejected ==
    mode = "derive" =>
        /\ (phase # "init"
              /\ \E i \in 1..Len(aux.decl.items) :
                    ~aux.decl.items[i].skip /\ aux.decl.items[i].id >= 128)
                => ~IsOk(typed)
        /\ phase = "written" => \A b \in IdBytes(wire) : b < 128

\* The records in what a generated struct writer wrote, three bytes each.
WrittenRecords ==
    [j \in 1..((Len(wire) - 2) \div 3) |-> SubSeq(wire, 3 * j, 3 * j + 2)]

\* The declared fields that are kept and present in the value written.
PresentFields ==
    {i \in 1..Len(aux.decl.items) : ~aux.decl.items[i].skip /\ aux.fields[i] # <<>>}

\* C15: generated struct write: in whatever order the fields are declared,
\* the content written lists the present fields in strictly increasing
\* field_id order, each as field_id byte, type id byte, value bytes; an
\* absent optional field contributes no byte and a skipped field is never
\* written.
C15_GeneratedStructWrite ==
    (mode = "derive" /\ phase = "written" /\ aux.decl.kind = "struct") =>
        /\ wire[1] = TStruct
        /\ wire[2] = 2 * (Len(wire) - 2)
        /\ Len(wire) - 2 = 3 * Cardinality(PresentFields)
        /\ \A j \in 2..Len(WrittenRecords) :
              WrittenRecords[j][1] > WrittenRecords[j - 1][1]
        /\ Range(WrittenRecords) =
              { <<aux.decl.items[i].id, TU8, FieldByte(i)>> : i \in PresentFields }

\* C15 witness: a struct that declares id 127 before id 0 has been written
\* with both fields present: the record of id 0 comes first.
C15_Witness ==
    /\ mode = "derive" /\ phase = "written" /\ aux.decl.kind = "struct"
    /\ Len(aux.decl.items) = 2
    /\ aux.decl.items[1].id = 127 /\ aux.decl.items[2].id = 0
    /\ aux.decl.items[1].opt /\ aux.fields[1] # <<>>
    /\ wire = <<TStruct, 12, 0, TU8, FieldByte(2), 127, TU8, FieldByte(1)>>

----------------------------------------------------------------------------
(* Framed bytes: both decoders on a payload in which one byte, at a named  *)
(* site, takes every value 0..255 and is followed by any of a few tails.   *)
(* Up to the site the payload is well-formed for the schema.  Sites:       *)
(*   top             the top-level type byte                               *)
(*   elem            the element type byte of an array                     *)
(*   key, val        the key / value type byte of a map                    *)
(*   field           the type byte of a record whose id the schema         *)
(*                   declares (id 0)                                       *)
(*   skipped         the type byte of an undeclared record (id 1) that     *)
(*                   read_value_for_field_id skips on its way to id 2      *)
(*   drained         the type byte of an undeclared record (id 3) that     *)
(*                   finish skips                                          *)
(*   inner           the type byte of an enum's inner value                *)
(*   field_id_first  the field id of the first record of a struct          *)
(*   field_id_next   the field id of the record after a valid record 0     *)
(*   variant         the variant id of an enum                             *)

TypeByteSites == {"top", "elem", "key", "val", "field", "skipped", "drained", "inner"}

FieldIdSites == {"field_id_first", "field_id_next"}

FrameSites == TypeByteSites \cup FieldIdSites \cup {"variant"}

FrameTails == { <<>>, <<42>>, <<42, 0, 0, 0>> }

FrameSchemas(site) ==
    CASE site = "top" ->
            { NullT, BoolT, U32T, StringT, VecOf(U8T), MapOf(U8T, BoolT),
              RequiredAndOption, SimpleEnum }
      [] site = "elem" -> { VecOf(U8T), VecOf(StringT) }
      [] site \in {"key", "val"} -> { MapOf(U8T, BoolT), MapOf(StringT, U8T) }
      [] site \in {"field", "skipped"} -> { RequiredAndOption }
      [] site \in {"drained", "field_id_first", "field_id_next"} ->
            { EmptyStruct, OnlyRequired, RequiredAndOption }
      [] site \in {"inner", "variant"} -> { SimpleEnum, EnumWithStruct }

\* A variable-size value of type k holding the content.
Framed(k, content) ==
    <<k>> \o write_tagged_varint_length(Len(content)).val \o content

\* Record 0 as every struct schema of FrameSchemas takes or skips it.
RecordZero == <<0, TU8, 42>>

\* The payload with byte b at the site, followed by the tail.
Frame(site, T, b, tail) ==
    CASE site = "top" -> <<b>> \o tail
      [] site = "elem" -> Framed(TArray, <<b>> \o tail)
      [] site = "key" -> Framed(TMap, <<b, T.sub[2].k>> \o tail)
      [] site = "val" -> Framed(TMap, <<T.sub[1].k, b>> \o tail)
      [] site = "field" -> Framed(TStruct, <<0, b>> \o tail)
      [] site = "skipped" -> Framed(TStruct, RecordZero \o <<1, b>> \o tail)
      [] site = "drained" -> Framed(TStruct, RecordZero \o <<3, b>> \o tail)
      [] site = "inner" -> Framed(TEnum, <<T.ids[1], b>> \o tail)
      [] site = "field_id_first" -> Framed(TStruct, <<b>> \o tail)
      [] site = "field_id_next" -> Framed(TStruct, RecordZero \o <<b>> \o tail)
      [] site = "variant" -> Framed(TEnum, <<b>> \o tail)

\* T::TYPE of the type the typed decoder expects at a type byte site.
ExpectedType(site, T) ==
    CASE site = "top" -> T.k
      [] site = "elem" -> T.sub[1].k
      [] site = "key" -> T.sub[1].k
      [] site = "val" -> T.sub[2].k
      [] site = "field" -> T.sub[1].k
      [] site = "inner" -> T.sub[1].k

InitFrame ==
    /\ mode = "frame"
    /\ phase = "init"
    /\ aux \in [site : FrameSites, b : 0..U8Max, tail : FrameTails]
    /\ schema \in FrameSchemas(aux.site)
    /\ value = <<>>
    /\ wire = Frame(aux.site, schema, aux.b, aux.tail)
    /\ typed = NoResult
    /\ dyn = NoResult

\* parse::<T>(payload)
ParseFrame ==
    /\ mode = "frame" /\ typed = NoResult
    /\ typed' = parse(schema, wire)
    /\ phase' = "decoded"
    /\ UNCHANGED <<mode, schema, value, wire, dyn, aux>>

\* relish_ascii::from_bytes(payload)
FromBytesFrame ==
    /\ mode = "frame" /\ dyn = NoResult
    /\ dyn' = from_bytes(wire)
    /\ phase' = "decoded"
    /\ UNCHANGED <<mode, schema, value, wire, typed, aux>>

NextFrame == ParseFrame \/ FromBytesFrame

SpecFrame == InitFrame /\ [][NextFrame]_vars

\* C11: reject high bit: for every byte b >= 0x80, a payload with b as the
\* top-level type id fails with InvalidTypeId(b), a struct payload with b as
\* a field id fails with InvalidFieldId(b), and an enum payload with b as
\* the variant id fails with InvalidFieldId(b), in the typed and in the
\* schema-less decoder.
C11_RejectHighBit ==
    (mode = "frame" /\ aux.b >= 128) =>
        /\ aux.site = "top" =>
              /\ typed # NoResult => IsErrWith(typed, "InvalidTypeId", aux.b, 0)
              /\ dyn # NoResult => IsErrWith(dyn, "InvalidTypeId", aux.b, 0)
        /\ aux.site \in FieldIdSites \cup {"variant"} =>
              /\ typed # NoResult => IsErrWith(typed, "InvalidFieldId", aux.b, 0)
              /\ dyn # NoResult => IsErrWith(dyn, "InvalidFieldId", aux.b, 0)

\* C11 witness: field id 0xFF after a valid record has been through both
\* decoders, for a struct that declares a later field.
C11_Witness ==
    /\ mode = "frame" /\ aux.site = "field_id_next" /\ aux.b = 255
    /\ schema = RequiredAndOption /\ aux.tail # <<>>
    /\ IsErr(typed, "InvalidFieldId") /\ IsErr(dyn, "InvalidFieldId")

\* C12: TypeId::from_byte accepts exactly the twenty bytes 0x00..0x13, and
\* every byte 0x14..0xFF read as a type byte fails with InvalidTypeId(byte):
\* at the top level, as array element type, as map key or value type, in a
\* struct field that is parsed and in one that is skipped as unknown.
C12_InvalidTypeId ==
    mode = "frame" =>
        /\ (from_byte(aux.b) # NoTypeId) <=> (aux.b \in 0..19)
        /\ from_byte(aux.b) \in {aux.b, NoTypeId}
        /\ (aux.b >= 20
              /\ aux.site \in {"top", "elem", "key", "val", "field", "skipped", "drained"}) =>
              /\ typed # NoResult => IsErrWith(typed, "InvalidTypeId", aux.b, 0)
              /\ dyn # NoResult => IsErrWith(dyn, "InvalidTypeId", aux.b, 0)

\* C12 witness: the first unassigned byte, 0x14, as the type byte of an
\* unknown trailing field has been through both decoders.
C12_Witness ==
    /\ mode = "frame" /\ aux.site = "drained" /\ aux.b = 20
    /\ schema = OnlyRequired
    /\ IsErrWith(typed, "InvalidTypeId", 20, 0) /\ IsErrWith(dyn, "InvalidTypeId", 20, 0)

\* C16: type check on read: wherever the typed decoder reads a type byte for
\* an expected type T (top level, array element type, map key and value
\* type, a matched struct field, an enum's inner value), a valid type id
\* other than T::TYPE fails with TypeMismatch{expected = T::TYPE, actual =
\* byte} and a byte that is no type id fails with InvalidTypeId(byte),
\* whatever follows the byte, nothing included: no value byte is read first.
C16_TypeCheckOnRead ==
    (mode = "frame" /\ typed # NoResult
        /\ aux.site \in {"top", "elem", "key", "val", "field", "inner"}) =>
        /\ aux.b >= 20 => IsErrWith(typed, "InvalidTypeId", aux.b, 0)
        /\ (aux.b <= 19 /\ aux.b # ExpectedType(aux.site, schema)) =>
              IsErrWith(typed, "TypeMismatch", ExpectedType(aux.site, schema), aux.b)

\* C16 witness: 04 2A 00 00 00 has been decoded as bool.
C16_Witness ==
    /\ mode = "frame" /\ aux.site = "top" /\ schema = BoolT
    /\ wire = <<TU32, 42, 0, 0, 0>>
    /\ IsErrWith(typed, "TypeMismatch", TBool, TU32)

----------------------------------------------------------------------------
(* Trailing bytes: both decoders on what to_vec wrote for a value,         *)
(* followed by further bytes (none included).                              *)

MaxExtra == 2

ExtraSchemas ==
    { NullT, BoolT, U32T, StringT, VecOf(U32T), VecOf(NullT), MapOf(U8T, StringT),
      WithOption, Outer, SimpleEnum }

InitExtra ==
    /\ mode = "extra"
    /\ phase = "init"
    /\ schema \in ExtraSchemas
    /\ value \in ValuesOf(schema)
    /\ aux \in { [n |-> Len(e), extra |-> e] : e \in SeqUpTo(JunkBytes, MaxExtra) }
    /\ wire = to_vec(schema, value).val \o aux.extra
    /\ typed = NoResult
    /\ dyn = NoResult

\* parse::<T>(payload)
ParseExtra ==
    /\ mode = "extra" /\ typed = NoResult
    /\ typed' = parse(schema, wire)
    /\ phase' = "decoded"
    /\ UNCHANGED <<mode, schema, value, wire, dyn, aux>>

\* relish_ascii::from_bytes(payload)
FromBytesExtra ==
    /\ mode = "extra" /\ dyn = NoResult
    /\ dyn' = from_bytes(wire)
    /\ phase' = "decoded"
    /\ UNCHANGED <<mode, schema, value, wire, typed, aux>>

NextExtra == ParseExtra \/ FromBytesExtra

SpecExtra == InitExtra /\ [][NextExtra]_vars

\* The encoding the payload starts with, on its own.
EncodingAlone == Take(wire, Len(wire) - aux.n)

----------------------------------------------------------------------------
(* The buffer reader on its own.  wire is the Bytes a BytesRef borrows     *)
(* (field b); aux.reader is the data of the reader BytesRef::new made and  *)
(* aux.sub the data of the sub-reader the last successful read on it       *)
(* returned.  Each call keeps what it was asked (aux.n), whom (aux.who)    *)
(* and what that reader held before the call (aux.before).                 *)

MaxBuf == 4

BufBytes == {0, 1, 255}

\* BytesRef::new(&b)
InitBuf ==
    /\ mode = "buf"
    /\ phase = "init"
    /\ schema = NullT
    /\ value = <<>>
    /\ wire \in SeqUpTo(BufBytes, MaxBuf)
    /\ typed = NoResult
    /\ dyn = NoResult
    /\ aux = [reader |-> wire, sub |-> <<>>, n |-> 0, who |-> "reader",
              before |-> wire, orig |-> wire]

\* reader.read(amt): on success self.data becomes the rest and the
\* sub-reader is kept; on failure the call returns before any assignment.
ReadReader ==
    /\ mode = "buf"
    /\ \E amt \in 0..(MaxBuf + 1) :
          /\ typed' = Read(aux.reader, amt)
          /\ aux' = [aux EXCEPT
                !.reader = IF IsOk(Read(aux.reader, amt))
                           THEN Read(aux.reader, amt).rest ELSE @,
                !.sub = IF IsOk(Read(aux.reader, amt))
                        THEN Read(aux.reader, amt).val ELSE @,
                !.n = amt, !.who = "reader", !.before = aux.reader]
    /\ phase' = "read"
    /\ UNCHANGED <<mode, schema, value, wire, dyn>>

\* sub.read(amt) on the sub-reader a read returned.
ReadSub ==
    /\ mode = "buf" /\ phase = "read"
    /\ \E amt \in 0..(MaxBuf + 1) :
          /\ typed' = Read(aux.sub, amt)
          /\ aux' = [aux EXCEPT
                !.sub = IF IsOk(Read(aux.sub, amt))
                        THEN Read(aux.sub, amt).rest ELSE @,
                !.n = amt, !.who = "sub", !.before = aux.sub]
    /\ UNCHANGED <<mode, phase, schema, value, wire, dyn>>

NextBuf == ReadReader \/ ReadSub

SpecBuf == InitBuf /\ [][NextBuf]_vars

\* What the reader that was read from holds after the call.
AfterRead == IF aux.who = "reader" THEN aux.reader ELSE aux.sub

\* C17: buffer take: read(n) on a reader with L remaining bytes returns,
\* when n <= L, a sub-reader over exactly the next n bytes and leaves the
\* reader with the following L - n bytes; when n > L it fails with
\* InsufficientData{needed = n, available = L} and leaves the reader's
\* remaining bytes as they were.  The underlying bytes never change.
C17_BufferTake ==
    (mode = "buf" /\ phase = "read") =>
        /\ aux.n <= Len(aux.before) =>
              /\ IsOk(typed)
              /\ Len(typed.val) = aux.n
              /\ Len(AfterRead) = Len(aux.before) - aux.n
              /\ typed.val \o AfterRead = aux.before
        /\ aux.n > Len(aux.before) =>
              /\ IsErrWith(typed, "InsufficientData", aux.n, Len(aux.before))
              /\ AfterRead = aux.before
        /\ wire = aux.orig

\* C17 witness: after a read of two bytes that succeeded, a read of more
\* than what is left has failed and left the reader as it was.
C17_Witness ==
    /\ mode = "buf" /\ phase = "read" /\ aux.who = "reader"
    /\ Len(wire) = 4 /\ Len(aux.before) = 2 /\ aux.n = 3
    /\ aux.sub = Take(wire, 2)
    /\ IsErrWith(typed, "InsufficientData", 3, 2)
    /\ aux.reader = Drop(wire, 2)

----------------------------------------------------------------------------
(* Worked examples: to_vec on the values the tests and examples encode     *)
(* (and their neighbours), then both decoders on the bytes written.        *)

ScenarioLen == 3

\* The u32 of a small number n, as digits.
U32(n) == <<n, 0>>

KeyString == <<107, 101, 121>>

ScenarioSchemas == { VecOf(U32T), MapOf(StringT, U32T), MapOf(U32T, StringT), WithOption }

ScenarioValues(T) ==
    CASE T = VecOf(U32T) -> SeqUpTo({U32(1), U32(2), U32(3)}, ScenarioLen)
      [] T = MapOf(StringT, U32T) ->
            {m \in SeqUpTo({KeyString, <<107>>} \X {U32(42), U32(10)}, 2) :
                NoDuplicateKeys(m)}
      [] T = MapOf(U32T, StringT) ->
            {m \in SeqUpTo({U32(1), U32(2)} \X {<<102, 111, 111>>, <<>>}, 2) :
                NoDuplicateKeys(m)}
      [] T = WithOption ->
            {<<r, o>> : r \in {U32(10), U32(42)}, o \in {<<>>, <<U32(20)>>}}

InitScenario ==
    /\ mode = "scenario"
    /\ phase = "init"
    /\ schema \in ScenarioSchemas
    /\ value \in ScenarioValues(schema)
    /\ wire = <<>>
    /\ typed = NoResult
    /\ dyn = NoResult
    /\ aux = NoAux

\* to_vec(&value)
ToVecScenario ==
    /\ mode = "scenario" /\ phase = "init"
    /\ IsOk(to_vec(schema, value))
    /\ wire' = to_vec(schema, value).val
    /\ phase' = "written"
    /\ UNCHANGED <<mode, schema, value, typed, dyn, aux>>

\* parse::<T>(Bytes::from(wire))
ParseScenario ==
    /\ mode = "scenario" /\ phase = "written" /\ typed = NoResult
    /\ typed' = parse(schema, wire)
    /\ UNCHANGED <<mode, phase, schema, value, wire, dyn, aux>>

\* relish_ascii::from_bytes(Bytes::from(wire))
FromBytesScenario ==
    /\ mode = "scenario" /\ phase = "written" /\ dyn = NoResult
    /\ dyn' = from_bytes(wire)
    /\ UNCHANGED <<mode, phase, schema, value, wire, typed, aux>>

NextScenario == ToVecScenario \/ ParseScenario \/ FromBytesScenario

SpecScenario == InitScenario /\ [][NextScenario]_vars

\* to_vec has been called on the array [1u32, 2u32, 3u32].
ArrayScenario ==
    /\ mode = "scenario" /\ phase = "written"
    /\ schema = VecOf(U32T) /\ value = <<U32(1), U32(2), U32(3)>>

\* C18 as stated: to_vec of the array [1u32, 2u32, 3u32] is
\* 0F 0E 04 01 00 00 00 02 00 00 00 03 00 00 00.
C18_ArrayBytesAsStated ==
    ArrayScenario => wire = <<15, 14, 4, 1, 0, 0, 0, 2, 0, 0, 0, 3, 0, 0, 0>>

\* C18: to_vec of the array [1u32, 2u32, 3u32] is
\* 0F 1A 04 01 00 00 00 02 00 00 00 03 00 00 00: the type byte, the tagged
\* varint 0x1A = 13 << 1 of the 13 content bytes, the element type byte and
\* three little-endian elements; from_bytes reads these bytes as the array
\* of U32 1, 2, 3.
C18_ArrayBytes ==
    ArrayScenario =>
        /\ wire = <<15, 26, 4, 1, 0, 0, 0, 2, 0, 0, 0, 3, 0, 0, 0>>
        /\ dyn # NoResult =>
              /\ IsOk(dyn)
              /\ dyn.val = Val(TArray, <<TU32, <<Val(TU32, U32(1)), Val(TU32, U32(2)),
                                                Val(TU32, U32(3))>> >>)

\* C18 witness: the array has been written and read back by from_bytes.
C18_Witness == ArrayScenario /\ IsOk(dyn) /\ Len(wire) = 15

\* to_vec has been called on the map {"key": 42u32}.
MapScenario ==
    /\ mode = "scenario" /\ phase = "written"
    /\ schema = MapOf(StringT, U32T) /\ value = << <<KeyString, U32(42)>> >>

\* What follows the type byte and the length prefix in what was written.
ContentWritten == read_tagged_varint_length(Drop(wire, 1)).rest

\* C19 as stated: to_vec of the map {"key": 42u32} is 10, the tagged-varint
\* content length, then 0E 04 06 6B 65 79 04 2A 00 00 00.
C19_MapBytesAsStated ==
    MapScenario =>
        /\ wire[1] = TMap
        /\ ContentWritten = <<14, 4, 6, 107, 101, 121, 4, 42, 0, 0, 0>>

\* C19: to_vec of the map {"key": 42u32} is 10 14 0E 04 06 6B 65 79 2A 00
\* 00 00: the type byte, the tagged varint 0x14 = 10 << 1 of the 10 content
\* bytes, the key type and the value type, the length-prefixed key, and the
\* value as its four little-endian bytes, with no type byte of its own.
C19_MapBytes ==
    MapScenario =>
        /\ wire = <<16, 20, 14, 4, 6, 107, 101, 121, 42, 0, 0, 0>>
        /\ ContentWritten = <<14, 4, 6, 107, 101, 121, 42, 0, 0, 0>>
        /\ typed # NoResult => IsOk(typed) /\ typed.val = value

\* C19 witness: the map has been written and parsed back.
C19_Witness == MapScenario /\ IsOk(typed) /\ Len(wire) = 12

----------------------------------------------------------------------------
(* Acceptance: parse::<S> and from_bytes on struct payloads whose records  *)
(* carry any value bytes, the encoding of a value or not.  A record here   *)
(* is [id, ty, val]: the field id byte, the type its type byte names, and  *)
(* the bytes that follow the type byte.                                     *)

MaxSkipped == 2

\* Field ids on the wire: the ids the schemas declare and one between.
AcceptIds == {0, 1, 2}

OnlyOption == StructOf(<<1>>, <<U8T>>, <<TRUE>>)

AcceptSchemas == { EmptyStruct, OnlyRequired, RequiredAndOption, OnlyOption }

\* The types a record is written with.
AcceptTypes == { NullT, U8T, BoolT, StringT, VecOf(NullT) }

\* The values whose encodings the records carry.
AcceptValues(T) ==
    CASE T.k = TNull -> { <<>> }
      [] T.k = TU8 -> { <<42>> }
      [] T.k = TBool -> { FALSE, TRUE }
      [] T.k = TString -> { <<107>> }
      [] T.k = TArray -> { <<>>, << <<>> >> }

\* Value bytes of the right length that no encoder writes: a bool byte
\* that is neither 0x00 nor 0xFF, a string of the lone byte 0xFF, an array
\* of Null with a byte after its element type.
Malformed(T) ==
    CASE T.k = TBool -> { <<5>> }
      [] T.k = TString -> { <<2, 255>> }
      [] T.k = TArray -> { <<4, 0, 0>> }
      [] OTHER -> {}

\* The bytes are what write_value writes for some value of the type.
Encodes(T, bytes) == \E v \in AcceptValues(T) : write_value(T, v).val = bytes

AcceptRecords ==
    { [id |-> id, ty |-> T, val |-> bytes] :
        id \in AcceptIds,
        <<T, bytes>> \in UNION { { <<U, write_value(U, v).val>> : v \in AcceptValues(U) }
                                   \cup { <<U, b>> : b \in Malformed(U) } :
                                 U \in AcceptTypes } }

\* A struct payload holding the records, in the order given.
AcceptWire(records) ==
    Framed(TStruct,
           Concat([i \in 1..Len(records) |->
                      <<records[i].id, records[i].ty.k>> \o records[i].val]))

InitAccept ==
    /\ mode = "accept"
    /\ phase = "init"
    /\ schema \in AcceptSchemas
    /\ value = <<>>
    /\ aux \in { [records |-> rs] : rs \in SeqUpTo(AcceptRecords, MaxSkipped) }
    /\ wire = AcceptWire(aux.records)
    /\ typed = NoResult
    /\ dyn = NoResult

\* parse::<S>(payload)
ParseAccept ==
    /\ mode = "accept" /\ typed = NoResult
    /\ typed' = parse(schema, wire)
    /\ phase' = "decoded"
    /\ UNCHANGED <<mode, schema, value, wire, dyn, aux>>

\* relish_ascii::from_bytes(payload)
FromBytesAccept ==
    /\ mode = "accept" /\ dyn = NoResult
    /\ dyn' = from_bytes(wire)
    /\ phase' = "decoded"
    /\ UNCHANGED <<mode, schema, value, wire, typed, aux>>

NextAccept == ParseAccept \/ FromBytesAccept

SpecAccept == InitAccept /\ [][NextAccept]_vars

\* Both decoders have run on the payload.
BothDecoded == mode = "accept" /\ typed # NoResult /\ dyn # NoResult

\* C20 as stated: every payload the typed decoder accepts, those with
\* fields it skips included, is accepted by from_bytes, which returns a
\* Value.
C20_TypedAcceptedAsStated ==
    (BothDecoded /\ IsOk(typed)) => IsOk(dyn)

\* C20: every payload the typed decoder accepts in which each record holds
\* the encoding of a value of the type its type byte names is accepted by
\* from_bytes, which returns a Value.  (The records the typed decoder reads
\* are such encodings once it has accepted: the condition is one on the
\* records it skips.)
C20_TypedAccepted ==
    (BothDecoded /\ IsOk(typed)
        /\ \A i \in 1..Len(aux.records) :
              Encodes(aux.records[i].ty, aux.records[i].val))
        => IsOk(dyn) /\ dyn.val.t = TStruct /\ Len(dyn.val.v) = Len(aux.records)

\* C20 witness: a payload with a bool field the schema does not know in
\* front of the declared field was accepted by both decoders.
C20_Witness ==
    /\ BothDecoded
    /\ schema = OnlyOption
    /\ wire = <<TStruct, 12, 0, TBool, 255, 1, TU8, 42>>
    /\ IsOk(typed) /\ typed.val = << << <<42>> >> >>
    /\ IsOk(dyn)
    /\ dyn.val.v = << <<0, Val(TBool, TRUE)>>, <<1, Val(TU8, <<42>>)>> >>


\* C30: schema-less struct decode: from_bytes accepts a struct payload
\* whose records are well-formed and whose field ids have the high bit
\* clear, repeated or decreasing ids included, and the Value::Struct lists
\* the (field_id, value) pairs in the order of the wire, each value being
\* what the record's type byte and value bytes decode to on their own.
C30_SchemalessStruct ==
    (mode = "accept" /\ dyn # NoResult
        /\ \A i \in 1..Len(aux.records) :
              /\ aux.records[i].id < 128
              /\ Encodes(aux.records[i].ty, aux.records[i].val))
        => /\ IsOk(dyn)
           /\ dyn.val.t = TStruct
           /\ Len(dyn.val.v) = Len(aux.records)
           /\ \A i \in 1..Len(aux.records) :
                 dyn.val.v[i] =
                     << aux.records[i].id,
                        from_bytes(<<aux.records[i].ty.k>> \o aux.records[i].val).val >>

\* C30 witness: a payload with field 2 in front of field 1, and one with
\* field 1 twice, were decoded.
C30_Witness ==
    /\ mode = "accept" /\ IsOk(dyn)
    /\ \/ /\ wire = <<TStruct, 12, 2, TU8, 42, 1, TBool, 255>>
          /\ dyn.val.v = << <<2, Val(TU8, <<42>>)>>, <<1, Val(TBool, TRUE)>> >>
       \/ /\ wire = <<TStruct, 12, 1, TBool, 0, 1, TU8, 42>>
          /\ dyn.val.v = << <<1, Val(TBool, FALSE)>>, <<1, Val(TU8, <<42>>)>> >>

----------------------------------------------------------------------------
(* The length writer on every usize: a buffer that already holds bytes     *)
(* gets write_tagged_varint_length(&mut buffer, hi * 2^31 + lo).           *)

\* The high parts of a usize: none, the first lengths that are too large,
\* and one near the top of a 64-bit usize.
HighSamples == {0, 1, 2, MaxVarintLength}

InitLength ==
    /\ mode = "length"
    /\ phase = "init"
    /\ schema = NullT
    /\ value \in LengthSamples
    /\ aux \in { [hi |-> h, before |-> t] : h \in HighSamples, t \in TailSamples }
    /\ wire = aux.before
    /\ typed = NoResult
    /\ dyn = NoResult

\* write_tagged_varint_length(&mut buffer, length): wire is the buffer; an
\* early return leaves it as it was.
WriteUsize ==
    /\ mode = "length" /\ phase = "init"
    /\ typed' = write_tagged_varint_length_usize([hi |-> aux.hi, lo |-> value])
    /\ wire' = IF IsOk(typed') THEN wire \o typed'.val ELSE wire
    /\ phase' = "written"
    /\ UNCHANGED <<mode, schema, value, dyn, aux>>

\* read_tagged_varint_length on what the writer appended.
ReadAppended ==
    /\ mode = "length" /\ phase = "written" /\ IsOk(typed)
    /\ dyn' = read_tagged_varint_length(Drop(wire, Len(aux.before)))
    /\ phase' = "read"
    /\ UNCHANGED <<mode, schema, value, wire, typed, aux>>

NextLength == WriteUsize \/ ReadAppended

SpecLength == InitLength /\ [][NextLength]_vars

\* C21: write_tagged_varint_length fails with ContentTooLarge(l) for every
\* l > 2^31 - 1 and leaves the buffer as it was; for every l <= 2^31 - 1 it
\* succeeds, and (l << 1) | 1 fits in 32 bits: its top byte is l >> 23
\* with nothing cut off, and the bytes appended read back as l.
C21_ContentTooLarge ==
    (mode = "length" /\ phase # "init") =>
        IF aux.hi > 0
        THEN /\ IsErrWith(typed, "ContentTooLarge", value, aux.hi)
             /\ wire = aux.before
        ELSE /\ IsOk(typed)
             /\ wire = aux.before \o typed.val
             /\ Len(typed.val) \in {1, 4}
             /\ \A i \in 1..Len(typed.val) : typed.val[i] \in 0..255
             /\ value \div 8388608 <= 255
             /\ Len(typed.val) = 4 => typed.val[4] = value \div 8388608
             /\ phase = "read" => IsOk(dyn) /\ dyn.val = value /\ dyn.rest = <<>>

\* C21 witness: 2^31 was refused with the buffer untouched, and 2^31 - 1
\* was written after the bytes the buffer held and read back.
C21_Witness ==
    /\ mode = "length" /\ aux.before = <<255, 1>>
    /\ \/ /\ phase = "written" /\ aux.hi = 1 /\ value = 0
          /\ IsErr(typed, "ContentTooLarge") /\ wire = <<255, 1>>
       \/ /\ phase = "read" /\ aux.hi = 0 /\ value = MaxVarintLength
          /\ wire = <<255, 1, 255, 255, 255, 255>>

----------------------------------------------------------------------------
(* Non-minimal lengths: a length below 128 written in the four-byte form,  *)
(* on its own and as the length prefix of a payload.                       *)

\* The first length write_tagged_varint_length writes in four bytes.
ShortLimit == 128

\* The longest array content tried in the four-byte form.
MaxArrayContent == 6

LongFormSchemas == { StringT, VecOf(U8T) }

\* The value whose content is l bytes long: a string of l letters, an
\* array of l - 1 bytes.
ValueOfLength(T, l) ==
    IF T.k = TString THEN [i \in 1..l |-> 97] ELSE [i \in 1..(l - 1) |-> <<42>>]

\* The payload of the value with its length prefix in the four-byte form.
LongFormWire(T, v) ==
    <<T.k>> \o long_form(content_len(T, v)) \o Drop(write_value(T, v).val, 1)

InitLongForm ==
    /\ mode = "longform"
    /\ phase = "init"
    /\ schema \in LongFormSchemas
    /\ aux \in { [l |-> l, tail |-> t, short |-> NoResult] :
                   l \in 0..(ShortLimit - 1), t \in TailSamples }
    /\ schema.k = TArray => aux.l \in 1..MaxArrayContent
    /\ value = ValueOfLength(schema, aux.l)
    /\ wire = LongFormWire(schema, value)
    /\ typed = NoResult
    /\ dyn = NoResult

\* read_tagged_varint_length on the four-byte form, other bytes after it.
ReadLongForm ==
    /\ mode = "longform" /\ phase = "init"
    /\ typed' = read_tagged_varint_length(long_form(aux.l) \o aux.tail)
    /\ phase' = "read"
    /\ UNCHANGED <<mode, schema, value, wire, dyn, aux>>

\* parse::<T> on the payload in the four-byte form and on to_vec's.
ParseLongForm ==
    /\ mode = "longform" /\ phase = "init"
    /\ typed' = parse(schema, wire)
    /\ aux' = [aux EXCEPT !.short = parse(schema, to_vec(schema, value).val)]
    /\ phase' = "parsed"
    /\ UNCHANGED <<mode, schema, value, wire, dyn>>

\* from_bytes on the payload in the four-byte form and on to_vec's.
FromBytesLongForm ==
    /\ mode = "longform" /\ phase = "init"
    /\ dyn' = from_bytes(wire)
    /\ aux' = [aux EXCEPT !.short = from_bytes(to_vec(schema, value).val)]
    /\ phase' = "decoded"
    /\ UNCHANGED <<mode, schema, value, wire, typed>>

NextLongForm == ReadLongForm \/ ParseLongForm \/ FromBytesLongForm

SpecLongForm == InitLongForm /\ [][NextLongForm]_vars

\* C22: non-minimal length tolerance: for every l < 128 the four-byte form
\* of l is accepted by read_tagged_varint_length and decodes to l, leaving
\* the bytes after it; a payload whose length prefix uses it parses, with
\* either decoder, to the value the payload in the one-byte form parses to.
C22_NonMinimalLength ==
    mode = "longform" =>
        /\ phase = "read" =>
              IsOk(typed) /\ typed.val = aux.l /\ typed.rest = aux.tail
        /\ phase = "parsed" =>
              IsOk(typed) /\ typed.val = value /\ typed = aux.short
        /\ phase = "decoded" =>
              IsOk(dyn) /\ dyn.val.t = schema.k /\ dyn = aux.short

\* C22 witness: 01 00 00 00 was read as length 0, the empty string with
\* that prefix was parsed, and an array and the longest string with a
\* four-byte prefix were decoded without their schema.
C22_Witness ==
    /\ mode = "longform"
    /\ \/ /\ phase = "read" /\ aux.l = 0 /\ long_form(aux.l) = <<1, 0, 0, 0>>
          /\ aux.tail = <<255, 1>> /\ typed.val = 0
       \/ /\ phase = "parsed" /\ wire = <<TString, 1, 0, 0, 0>> /\ typed.val = <<>>
       \/ /\ phase = "decoded" /\ schema.k = TArray /\ aux.l = 3
          /\ wire = <<TArray, 7, 0, 0, 0, TU8, 42, 42>>
          /\ dyn.val.v = <<TU8, <<Val(TU8, <<42>>), Val(TU8, <<42>>)>> >>
       \/ /\ phase = "decoded" /\ schema.k = TString /\ aux.l = 127
          /\ Len(wire) = 132 /\ wire[2] = 255 /\ Len(dyn.val.v) = 127

----------------------------------------------------------------------------
(* The bool codec: to_vec on both booleans, both decoders on the type byte *)
(* followed by any one byte or by nothing.                                 *)

InitBool ==
    /\ mode = "bool"
    /\ phase = "init"
    /\ schema = BoolT
    /\ value \in BOOLEAN
    /\ aux \in { [bytes |-> bs] : bs \in { <<>> } \cup { <<b>> : b \in 0..U8Max } }
    /\ wire = <<TBool>> \o aux.bytes
    /\ typed = NoResult
    /\ dyn = NoResult

\* to_vec(&value): what is decoded from here on is what it wrote.
ToVecBool ==
    /\ mode = "bool" /\ phase = "init" /\ typed = NoResult /\ dyn = NoResult
    /\ IsOk(to_vec(schema, value))
    /\ wire' = to_vec(schema, value).val
    /\ aux' = [bytes |-> Drop(to_vec(schema, value).val, 1)]
    /\ phase' = "written"
    /\ UNCHANGED <<mode, schema, value, typed, dyn>>

\* parse::<bool>(wire)
ParseBool ==
    /\ mode = "bool" /\ typed = NoResult
    /\ typed' = parse(schema, wire)
    /\ UNCHANGED <<mode, phase, schema, value, wire, dyn, aux>>

\* relish_ascii::from_bytes(wire)
FromBytesBool ==
    /\ mode = "bool" /\ dyn = NoResult
    /\ dyn' = from_bytes(wire)
    /\ UNCHANGED <<mode, phase, schema, value, wire, typed, aux>>

NextBool == ToVecBool \/ ParseBool \/ FromBytesBool

SpecBool == InitBool /\ [][NextBool]_vars

\* What the claim says a decoder makes of the bytes after the type byte;
\* ok(b) is the decoder's success on the boolean b.
BoolOutcome(r, bytes, ok(_)) ==
    IF bytes = <<>> THEN IsErrWith(r, "InsufficientData", 1, 0)
    ELSE IF bytes[1] = 0 THEN r = ok(FALSE)
    ELSE IF bytes[1] = 255 THEN r = ok(TRUE)
    ELSE IsErrWith(r, "InvalidBoolValue", bytes[1], 0)

\* C23: bool codec: true is written as the byte 0xFF and false as 0x00; on
\* decode 0x00 gives false, 0xFF gives true, every other byte b gives
\* InvalidBoolValue(b), and a bool payload with no value byte gives
\* InsufficientData { needed: 1, available: 0 }.
C23_BoolCodec ==
    mode = "bool" =>
        /\ phase = "written" => wire = <<TBool, IF value THEN 255 ELSE 0>>
        /\ typed # NoResult =>
              BoolOutcome(typed, aux.bytes, LAMBDA b : Ok(b, <<>>))
        /\ dyn # NoResult =>
              BoolOutcome(dyn, aux.bytes, LAMBDA b : Ok(Val(TBool, b), <<>>))
        /\ (phase = "written" /\ typed # NoResult) => typed.val = value

\* C23 witness: true was written and read back by both decoders; the byte
\* 0x42 and the missing byte were refused by both.
C23_Witness ==
    /\ mode = "bool" /\ typed # NoResult /\ dyn # NoResult
    /\ \/ phase = "written" /\ value /\ wire = <<TBool, 255>> /\ typed.val /\ dyn.val.v
       \/ phase = "init" /\ wire = <<TBool, 66>> /\ IsErrWith(dyn, "InvalidBoolValue", 66, 0)
       \/ phase = "init" /\ wire = <<TBool>> /\ IsErrWith(typed, "InsufficientData", 1, 0)

----------------------------------------------------------------------------
(* Variant ids: a derived enum parser on an enum payload that starts with  *)
(* any byte as its variant id, followed by a value, by a broken one or by  *)
(* nothing.                                                                *)

\* enum SimpleEnum { #[relish(field_id = 0)] A(u32) } of the tests.
OneVariant == EnumOf(<<0>>, <<U32T>>)
\* An enum the macro accepts with a variant id above 0x7F.
HighVariant == EnumOf(<<0, 200>>, <<U8T, U8T>>)

VariantSchemas == { OneVariant, HighVariant, EnumWithStruct }

\* What follows the variant id: nothing, a u32, a u8, an invalid type
\* byte, a type byte without its value, a bool that is none.
AfterVariantId ==
    { <<>>, <<TU32, 42, 0, 0, 0>>, <<TU8, 42>>, <<20>>, <<TU8>>, <<TBool, 5>> }

InitVariant ==
    /\ mode = "variant"
    /\ phase = "init"
    /\ schema \in VariantSchemas
    /\ value = <<>>
    /\ aux \in { [id |-> b, after |-> a] : b \in 0..U8Max, a \in AfterVariantId }
    /\ wire = Framed(TEnum, <<aux.id>> \o aux.after)
    /\ typed = NoResult
    /\ dyn = NoResult

\* parse::<E>(payload)
ParseVariant ==
    /\ mode = "variant" /\ typed = NoResult
    /\ typed' = parse(schema, wire)
    /\ phase' = "decoded"
    /\ UNCHANGED <<mode, schema, value, wire, dyn, aux>>

\* relish_ascii::from_bytes(payload)
FromBytesVariant ==
    /\ mode = "variant" /\ dyn = NoResult
    /\ dyn' = from_bytes(wire)
    /\ phase' = "decoded"
    /\ UNCHANGED <<mode, schema, value, wire, typed, aux>>

NextVariant == ParseVariant \/ FromBytesVariant

SpecVariant == InitVariant /\ [][NextVariant]_vars

\* C24: derived enum parse: a variant id with the high bit clear that
\* matches no declared variant fails with UnknownVariant(id), whatever
\* follows it (the inner type byte and value are not read); a variant id
\* with the high bit set fails with InvalidFieldId(id), also when a variant
\* of that id is declared.
C24_VariantId ==
    (mode = "variant" /\ typed # NoResult) =>
        /\ aux.id >= 128 => IsErrWith(typed, "InvalidFieldId", aux.id, 0)
        /\ (aux.id < 128 /\ ~Declares(schema, aux.id)) =>
              IsErrWith(typed, "UnknownVariant", aux.id, 0)

\* C24 witness: 12 0C 05 04 2A 00 00 00 was refused as variant 5, variant 5
\* in front of an invalid type byte too, and the declared variant 200.
C24_Witness ==
    /\ mode = "variant" /\ typed # NoResult
    /\ \/ /\ schema = OneVariant /\ wire = <<TEnum, 12, 5, TU32, 42, 0, 0, 0>>
          /\ IsErrWith(typed, "UnknownVariant", 5, 0)
       \/ /\ schema = OneVariant /\ wire = <<TEnum, 4, 5, 20>>
          /\ IsErrWith(typed, "UnknownVariant", 5, 0)
       \/ /\ schema = HighVariant /\ wire = <<TEnum, 6, 200, TU8, 42>>
          /\ Declares(schema, 200)
          /\ IsErrWith(typed, "InvalidFieldId", 200, 0)

----------------------------------------------------------------------------
(* The struct cursor as a machine: a StructParser over the content of a    *)
(* struct, a call of read_value_for_field_id::<u8> or of finish per step.  *)
(* aux.parser is the StructParser; aux.log holds one entry per call:       *)
(* [op, t, before, res], the target, the parser before the call and the    *)
(* call's result, whose rest is the parser after it.                       *)

MaxCursorRecords == 3
MaxCalls == 3

CursorIds == {0, 1, 2}

\* The values on the wire: a u8, a bool byte that is no bool, a string
\* that is no UTF-8.
CursorValues == { <<U8T, <<42>> >>, <<BoolT, <<5>> >>, <<StringT, <<2, 255>> >> }

CursorRecords ==
    { [id |-> id, ty |-> tv[1], val |-> tv[2]] : id \in CursorIds, tv \in CursorValues }

\* What the content ends with: nothing, a record with an invalid type
\* byte, a u32 record cut short.
CursorTails == { <<>>, <<2, 20>>, <<2, TU32, 42>> }

CursorBytes(records) ==
    Concat([i \in 1..Len(records) |->
               <<records[i].id, records[i].ty.k>> \o records[i].val])

InitCursor ==
    /\ mode = "cursor"
    /\ phase = "init"
    /\ schema = U8T
    /\ value = <<>>
    /\ \E rs \in SeqUpTo(CursorRecords, MaxCursorRecords), tail \in CursorTails :
          /\ wire = CursorBytes(rs) \o tail
          /\ aux = [records |-> rs, tail |-> tail,
                    parser |-> StructParser_new(CursorBytes(rs) \o tail),
                    log |-> <<>>]
    /\ typed = NoResult
    /\ dyn = NoResult

\* The target of the call before, NoField before the first call.
LastTarget == IF aux.log = <<>> THEN NoField ELSE aux.log[Len(aux.log)].t

\* parser.read_value_for_field_id::<u8>(t)?, targets never going down.
ReadValueForFieldId ==
    /\ mode = "cursor" /\ phase \in {"init", "called"} /\ Len(aux.log) < MaxCalls
    /\ \E t \in CursorIds :
          /\ t >= LastTarget
          /\ typed' = read_value_for_field_id(schema, aux.parser, t)
          /\ aux' = [aux EXCEPT
                       !.parser = IF IsOk(typed') THEN typed'.rest ELSE @,
                       !.log = Append(@, [op |-> "read", t |-> t,
                                          before |-> aux.parser, res |-> typed'])]
    /\ phase' = IF IsOk(typed') THEN "called" ELSE "failed"
    /\ UNCHANGED <<mode, schema, value, wire, dyn>>

\* parser.finish()?
Finish ==
    /\ mode = "cursor" /\ phase \in {"init", "called"}
    /\ typed' = finish(aux.parser)
    /\ aux' = [aux EXCEPT
                 !.parser = IF IsOk(typed') THEN typed'.rest ELSE @,
                 !.log = Append(@, [op |-> "finish", t |-> LastTarget,
                                    before |-> aux.parser, res |-> typed'])]
    /\ phase' = IF IsOk(typed') THEN "finished" ELSE "failed"
    /\ UNCHANGED <<mode, schema, value, wire, dyn>>

NextCursor == ReadValueForFieldId \/ Finish

SpecCursor == InitCursor /\ [][NextCursor]_vars

\* The field id the cursor is at, NoField at the end of the content.
NextId(parser) == IF parser.data = <<>> THEN NoField ELSE parser.data[1]

\* Entry i of the log is a read whose target is below the id the cursor is
\* at, that id being above last_seen_field_id.
FieldAhead(i) ==
    /\ aux.log[i].op = "read"
    /\ NextId(aux.log[i].before) > aux.log[i].t
    /\ NextId(aux.log[i].before) > aux.log[i].before.last

\* C25: wire field ahead of target: when read_value_for_field_id(t) finds
\* the next on-wire id f above t (and above last_seen), it returns absent
\* and leaves the cursor position and last_seen_field_id as they were; a
\* request for f that follows finds that record: it reads its value when
\* the record holds a u8, and compares its type byte when it does not.
C25_FieldAhead ==
    mode = "cursor" =>
        \A i \in 1..Len(aux.log) :
            FieldAhead(i) =>
                /\ aux.log[i].res = Ok(<<>>, aux.log[i].before)
                /\ (i < Len(aux.log) /\ aux.log[i + 1].op = "read"
                      /\ aux.log[i + 1].t = NextId(aux.log[i].before)) =>
                       /\ aux.log[i + 1].before = aux.log[i].before
                       /\ IF aux.log[i].before.data[2] = TU8
                          THEN /\ IsOk(aux.log[i + 1].res)
                               /\ aux.log[i + 1].res.val = << <<aux.log[i].before.data[3]>> >>
                               /\ aux.log[i + 1].res.rest.data = Drop(aux.log[i].before.data, 3)
                               /\ aux.log[i + 1].res.rest.last = aux.log[i + 1].t
                          ELSE IsErr(aux.log[i + 1].res, "TypeMismatch")
                               \/ IsErr(aux.log[i + 1].res, "InvalidTypeId")

\* C25 witness: after record 0 was read, a request for field 1 found
\* record 2 ahead, and the request for field 2 that followed read it.
C25_Witness ==
    /\ mode = "cursor" /\ Len(aux.log) = 3
    /\ wire = <<0, TU8, 42, 2, TU8, 42>>
    /\ aux.log[2].t = 1 /\ FieldAhead(2)
    /\ aux.log[2].before = [data |-> <<2, TU8, 42>>, last |-> 0]
    /\ aux.log[2].res = Ok(<<>>, aux.log[2].before)
    /\ aux.log[3].t = 2 /\ aux.log[3].res.val = << <<42>> >>
    /\ aux.parser = [data |-> <<>>, last |-> 2]

----------------------------------------------------------------------------
(* The decoding loops, one iteration per step.  aux.content is what the    *)
(* loop's reader still holds, aux.n the number of elements, entries or     *)
(* records pushed so far (counted up to MaxIterations), aux.keys the keys  *)
(* a HashMap holds.                                                        *)

MaxLoopContent == 3
MaxIterations == 4

LoopBytes == {0, 1, 2, 255}

\* The loops: the TypeId::Array, TypeId::Map and TypeId::Struct arms of the
\* schema-less decoder, Vec<T> and HashMap<K, V>, and StructParser::finish.
SchemalessLoops == { "Array", "Map", "Struct" }
TypedLoops == { "Vec", "HashMap" }
LoopKinds == SchemalessLoops \cup TypedLoops \cup { "finish" }

LoopTypes == { NullT, BoolT, U8T }

InitLoop ==
    /\ mode = "loop"
    /\ phase = "init"
    /\ schema = NullT
    /\ value = <<>>
    /\ wire \in SeqUpTo(LoopBytes, MaxLoopContent)
    /\ aux \in { [loop |-> l, kt |-> kt, vt |-> vt, content |-> wire,
                  n |-> 0, keys |-> {}] :
                   l \in LoopKinds, kt \in LoopTypes, vt \in LoopTypes }
    /\ aux.loop \notin { "Map", "HashMap" } => aux.vt = NullT
    /\ aux.loop \in { "Struct", "finish" } => aux.kt = NullT
    /\ typed = NoResult
    /\ dyn = NoResult

\* What precedes the loop once the type bytes are read: Vec<T> reserves
\* data.len() / size elements when the element type has a fixed size.
EnterLoop ==
    /\ mode = "loop" /\ phase = "init"
    /\ phase' = IF aux.loop = "Vec" /\ length(aux.kt.k) = 0
                THEN "panicked" ELSE "looping"
    /\ typed' = IF aux.loop = "Vec" /\ length(aux.kt.k) = 0
                THEN Panic("DivideByZero") ELSE typed
    /\ UNCHANGED <<mode, schema, value, wire, dyn, aux>>

\* One pass through the body of the loop on the reader: rest is the reader
\* after it.  An entry of a map is its key, then its value.
LoopBody(loop, kt, vt, content) ==
    CASE loop = "Array" -> parse_typed_value(content, kt.k)
      [] loop = "Map" ->
            Try(parse_typed_value(content, kt.k), LAMBDA key :
                parse_typed_value(key.rest, vt.k))
      [] loop = "Struct" ->
            Try(read_byte(content), LAMBDA field_id :
                IF field_id.val >= 128 THEN Err("InvalidFieldId", field_id.val, 0)
                ELSE sl_parse_value(field_id.rest))
      [] loop = "Vec" -> parse_value_for_typeid(kt, content, kt.k)
      [] loop = "HashMap" ->
            Try(parse_value_for_typeid(kt, content, kt.k), LAMBDA key :
            Try(parse_value_for_typeid(vt, key.rest, vt.k), LAMBDA val :
                Ok(key.val, val.rest)))
      [] loop = "finish" ->
            Try(peek_field_id(StructParser_new(content)), LAMBDA peek :
            Try(skip_current_field(StructParser_new(content)), LAMBDA skipped :
                Ok(<<>>, skipped.rest.data)))

\* while !data.is_empty() { ... }: one iteration.  HashMap's insert of a
\* key it holds ends the loop with DuplicateMapKey.
Iterate ==
    /\ mode = "loop" /\ phase = "looping" /\ aux.content # <<>>
    /\ typed' = IF IsOk(LoopBody(aux.loop, aux.kt, aux.vt, aux.content))
                     /\ aux.loop = "HashMap"
                     /\ LoopBody(aux.loop, aux.kt, aux.vt, aux.content).val \in aux.keys
                THEN Err("DuplicateMapKey", 0, 0)
                ELSE LoopBody(aux.loop, aux.kt, aux.vt, aux.content)
    /\ phase' = IF IsOk(typed') THEN "looping" ELSE "failed"
    /\ aux' = IF IsOk(typed')
              THEN [aux EXCEPT !.content = typed'.rest,
                               !.n = IF @ < MaxIterations THEN @ + 1 ELSE @,
                               !.keys = IF aux.loop = "HashMap"
                                        THEN @ \cup {typed'.val} ELSE @]
              ELSE aux
    /\ UNCHANGED <<mode, schema, value, wire, dyn>>

\* The loop condition fails: the reader is empty.
LeaveLoop ==
    /\ mode = "loop" /\ phase = "looping" /\ aux.content = <<>>
    /\ phase' = "done"
    /\ UNCHANGED <<mode, schema, value, wire, typed, dyn, aux>>

NextLoop == EnterLoop \/ Iterate \/ LeaveLoop

SpecLoop == InitLoop /\ [][NextLoop]_vars

\* C26: every iteration of a decoding loop that goes on to another one has
\* consumed at least one byte, the element type Null included, so that no
\* loop runs for ever.
C26_LoopsConsume ==
    [][(mode = "loop" /\ phase = "looping" /\ phase' = "looping")
          => Len(aux'.content) < Len(aux.content)]_vars

\* last_seen_field_id never goes down over a call that succeeds, and a read
\* that returns a value sets it to its target.
LastSeenIncreases ==
    \A i \in 1..Len(aux.log) :
        IsOk(aux.log[i].res) =>
            /\ aux.log[i].res.rest.last >= aux.log[i].before.last
            /\ (aux.log[i].op = "read" /\ aux.log[i].res.val # <<>>) =>
                  aux.log[i].res.rest.last = aux.log[i].t

\* C27: over calls of read_value_for_field_id with nondecreasing targets
\* followed by finish, last_seen_field_id only increases, and when finish
\* has succeeded the content is consumed to its end and the on-wire field
\* ids, all consumed or skipped by then, are strictly increasing.
C27_CursorOrder ==
    mode = "cursor" =>
        /\ LastSeenIncreases
        /\ phase = "finished" =>
              /\ aux.parser.data = <<>>
              /\ aux.tail = <<>>
              /\ StrictlyIncreasing(aux.records)

----------------------------------------------------------------------------
(* Containment: a container whose content ends inside its last nested      *)
(* value, at the top level in front of further bytes or as field 0 of a    *)
(* struct in front of a sibling record.                                    *)
(* Case i is [w, v, p, ask]: the payload is to_vec::<w>(v) with the last   *)
(* aux.cut bytes of its content cut off and its length prefix lowered by   *)
(* as much; it is parsed as p; ask is the number of bytes the last nested  *)
(* value asks its enclosing reader for.                                    *)

ContainCases ==
    << [w |-> VecOf(U32T), v |-> <<U32(1), U32(2)>>, p |-> VecOf(U32T), ask |-> 4],
      [w |-> VecOf(StringT), v |-> <<KeyString>>, p |-> VecOf(StringT), ask |-> 3],
      [w |-> MapOf(StringT, U32T), v |-> << <<KeyString, U32(42)>> >>,
       p |-> MapOf(StringT, U32T), ask |-> 4],
      [w |-> MapOf(U32T, StringT), v |-> << <<U32(1), KeyString>> >>,
       p |-> MapOf(U32T, StringT), ask |-> 3],
      [w |-> Inner, v |-> <<U32(20)>>, p |-> Inner, ask |-> 4],
      [w |-> Inner, v |-> <<U32(20)>>, p |-> EmptyStruct, ask |-> 4],
      [w |-> Outer, v |-> <<<<U32(20)>>, <<>> >>, p |-> Outer, ask |-> 6],
      [w |-> SimpleEnum, v |-> <<0, U32(42)>>, p |-> SimpleEnum, ask |-> 4],
      [w |-> SimpleEnum, v |-> <<1, KeyString>>, p |-> SimpleEnum, ask |-> 3] >>

\* The sibling record of the nested container.
SiblingRecord == <<1, TU8, 42>>

\* The content to_vec wrote (after the type byte and a one-byte length).
WrittenContent(c) == Drop(to_vec(c.w, c.v).val, 2)

\* The payload with the content cut short by cut bytes.
CutShort(c, cut) ==
    Framed(c.w.k, Take(WrittenContent(c), Len(WrittenContent(c)) - cut))

\* The bytes that were cut off.
CutOff(c, cut) == Drop(WrittenContent(c), Len(WrittenContent(c)) - cut)

InitContain ==
    /\ mode = "contain"
    /\ phase = "init"
    /\ value = <<>>
    /\ \E i \in 1..Len(ContainCases), wrap \in {"top", "field"} :
       \E cut \in 1..(ContainCases[i].ask - 1) :
          /\ \E after \in { <<>>, CutOff(ContainCases[i], cut), SiblingRecord } :
                /\ aux = [case |-> i, p |-> ContainCases[i].p,
                          ask |-> ContainCases[i].ask,
                          cut |-> cut, wrap |-> wrap, after |-> after]
                /\ schema = IF wrap = "top" THEN ContainCases[i].p
                            ELSE StructOf(<<0, 1>>, <<ContainCases[i].p, U8T>>,
                                          <<FALSE, TRUE>>)
                /\ wire = IF wrap = "top" THEN CutShort(ContainCases[i], cut) \o after
                          ELSE Framed(TStruct, <<0>> \o CutShort(ContainCases[i], cut)
                                                   \o after)
    /\ typed = NoResult
    /\ dyn = NoResult

\* parse::<T>(payload)
ParseContain ==
    /\ mode = "contain" /\ typed = NoResult
    /\ typed' = parse(schema, wire)
    /\ phase' = "decoded"
    /\ UNCHANGED <<mode, schema, value, wire, dyn, aux>>

\* relish_ascii::from_bytes(payload)
FromBytesContain ==
    /\ mode = "contain" /\ dyn = NoResult
    /\ dyn' = from_bytes(wire)
    /\ phase' = "decoded"
    /\ UNCHANGED <<mode, schema, value, wire, typed, aux>>

NextContain == ParseContain \/ FromBytesContain

SpecContain == InitContain /\ [][NextContain]_vars

\* C28: containment: a nested value that asks for more bytes than remain
\* in the content of its enclosing value fails with InsufficientData
\* { needed: what it asks for, available: what remains }, whatever bytes
\* follow the enclosing value: those of a sibling or of further data are
\* never read in its place.
C28_Containment ==
    mode = "contain" =>
        /\ typed # NoResult =>
              IsErrWith(typed, "InsufficientData", aux.ask, aux.ask - aux.cut)
        /\ dyn # NoResult =>
              IsErrWith(dyn, "InsufficientData", aux.ask, aux.ask - aux.cut)

\* C28 witness: an array of u32 whose content ends two bytes into its last
\* element, followed by the two bytes that were cut off, and a nested
\* struct cut short in front of its sibling record, went through both
\* decoders.
C28_Witness ==
    /\ mode = "contain" /\ typed # NoResult /\ dyn # NoResult
    /\ \/ /\ aux.wrap = "top"
          /\ wire = <<TArray, 14, TU32, 1, 0, 0, 0, 2, 0, 0, 0>>
          /\ aux.after = <<0, 0>>
          /\ IsErrWith(typed, "InsufficientData", 4, 2)
       \/ /\ aux.wrap = "field" /\ aux.p = Inner
          /\ wire = <<TStruct, 18, 0, TStruct, 6, 0, TU32, 20, 1, TU8, 42>>
          /\ IsErrWith(dyn, "InsufficientData", 4, 1)

----------------------------------------------------------------------------
(* Skipping, on the cursor machine: what a call makes of the records it    *)
(* passes over, told from their ids alone.                                 *)

\* The records the parser has not passed yet (it stands between records).
Remaining(parser) ==
    LET n == Len(aux.records)
        j == CHOOSE j \in 0..n :
                Len(CursorBytes(SubSeq(aux.records, j + 1, n))) + Len(aux.tail)
                    = Len(parser.data)
    IN  SubSeq(aux.records, j + 1, n)

\* The bytes of the content from record k + 1 of rem on.
From(rem, k) == CursorBytes(SubSeq(rem, k + 1, Len(rem))) \o aux.tail

\* The ids of rem are strictly increasing and above last.
Ascending(rem, last) ==
    /\ StrictlyIncreasing(rem)
    /\ rem # <<>> => rem[1].id > last

\* What skipping the last, broken record gives: its type byte is refused,
\* or its four value bytes are not there.
TailOutcome(r) ==
    IF aux.tail[2] = 20 THEN IsErrWith(r, "InvalidTypeId", 20, 0)
    ELSE IsErrWith(r, "InsufficientData", 4, Len(aux.tail) - 2)

\* finish on records in order: every record is skipped, whatever its value
\* bytes are; then the broken record, if there is one, is refused.
FinishOutcome(e, rem) ==
    IF aux.tail = <<>> THEN e.res = Ok(<<>>, [data |-> <<>>, last |-> e.before.last])
    ELSE IF e.before.last >= aux.tail[1]
         THEN IsErrWith(e.res, "FieldOrderViolation", e.before.last, aux.tail[1])
    ELSE TailOutcome(e.res)

\* read_value_for_field_id(t) on records in order, k of them below t: they
\* are skipped, whatever their value bytes are; the record of id t is read,
\* a record above t or the end of the content gives None.
ReadOutcome(e, rem, k) ==
    IF k < Len(rem) /\ rem[k + 1].id = e.t
    THEN IF rem[k + 1].ty = U8T
         THEN e.res = Ok(<< rem[k + 1].val >>, [data |-> From(rem, k + 1), last |-> e.t])
         ELSE IsErrWith(e.res, "TypeMismatch", TU8, rem[k + 1].ty.k)
    ELSE (k < Len(rem) \/ aux.tail = <<>>) =>
            e.res = Ok(<<>>, [data |-> From(rem, k),
                              last |-> IF k > 0 THEN rem[k].id ELSE e.before.last])

\* C29: skipping an unknown field (an id below the target, or one left for
\* finish) checks that its type byte is a type id and that its value bytes
\* are there, and nothing of the value: a bool byte that is no bool and a
\* string that is no UTF-8 are passed over, and the call ends as the ids
\* alone decide.
C29_SkipUnvalidated ==
    mode = "cursor" =>
        \A i \in 1..Len(aux.log) :
            Ascending(Remaining(aux.log[i].before), aux.log[i].before.last) =>
                IF aux.log[i].op = "finish"
                THEN FinishOutcome(aux.log[i], Remaining(aux.log[i].before))
                ELSE ReadOutcome(aux.log[i], Remaining(aux.log[i].before),
                                 Cardinality({j \in 1..Len(Remaining(aux.log[i].before)) :
                                     Remaining(aux.log[i].before)[j].id < aux.log[i].t}))

\* C29 witness: a read of field 2 passed over a bool byte 0x05 and a string
\* byte 0xFF and returned the u8 of record 2; a finish passed over both.
C29_Witness ==
    /\ mode = "cursor" /\ Len(aux.log) = 1
    /\ \/ /\ wire = <<0, TBool, 5, 1, TString, 2, 255, 2, TU8, 42>>
          /\ aux.log[1].op = "read" /\ aux.log[1].t = 2
          /\ typed = Ok(<< <<42>> >>, [data |-> <<>>, last |-> 2])
       \/ /\ wire = <<0, TBool, 5, 1, TString, 2, 255>>
          /\ aux.log[1].op = "finish"
          /\ IsOk(typed) /\ aux.parser.data = <<>>

====
